---- MODULE Spec2Model ----
(***************************************************************************)
(* Content routing and resilient provider invocation of the puckr backend: *)
(* AIHelperService.process_file / process_link select a provider service   *)
(* (GeminiService, GrokService, PerplexityService) by content type and the *)
(* service runs its retry / backoff / fallback logic against the network.  *)
(* One behaviour of the model is one request.  Every network call and      *)
(* every backoff sleep is one step; the outcome of a network call is       *)
(* chosen by the environment.                                              *)
(***************************************************************************)
EXTENDS Integers, Sequences, FiniteSets, TLC

VARIABLES
    pc,        \* position of the request (which await is pending)
    entry,     \* orchestrator entry point: "process_file" | "process_link"
    owner,     \* user_id of the stored record with the requested id, if any
    kind,      \* file_type / link_type of the stored record
    locator,   \* file_url / url of the stored record
    ctx,       \* caller of _fetch_url_content: "primary" | "fallback"
    attempt,   \* loop variable `attempt` of the running retry loop
    outcomes,  \* outcomes of the network calls of the running retry loop
    events,    \* network calls and backoff sleeps of the request, in order
    lastText,  \* text carried by the last 200 response that had one
    raised,    \* the exception that left the last retry loop, if one did
    result,    \* the dict returned by the entry point
    content,   \* the list handed to GeminiService.process_content (batch mode)
    results,   \* the list `results` of GeminiService.process_content
    environ,   \* the services whose API key is set in the process environment
    config,    \* api_key, base_url and model of the constructed services
    tasks      \* the requests running concurrently on the event loop

vars == <<pc, entry, owner, kind, locator, ctx, attempt, outcomes, events, lastText, raised, result, content, results,
         environ, config, tasks>>

\* ---------------------------------------------------------------- bounds
MaxTexts == 2          \* distinct non-blank texts a provider may return
MaxBatch == 2          \* items of a list handed to process_content

TextPool == <<"Summary A", "Summary B", "Summary C", "Summary D">>
Texts == {TextPool[i] : i \in 1..MaxTexts}
BlankTexts == {"", " "}           \* texts with text.strip() == ""
IsBlank(t) == t \in BlankTexts

\* Free text of third-party origin (HTTP bodies, httpx messages).
Details == {"quota exceeded", "upstream timeout"}
\* str(e) of an exception of the HTTP client: httpx timeouts raised under
\* asyncio carry an empty message.
ExcDetails == Details \cup {""}

NoResult == <<>>
NoText == "<none>"
NoError == [text |-> "<none>", detail |-> ""]

\* ------------------------------------------------------- program constants
\* Mutant: one attempt more than the code allows.
pdf_max_retries_mut == 3 + 1
pdf_max_retries == 3
pdf_base_timeout == 30
youtube_max_retries == 3
youtube_base_timeout == 60
\* Mutant: the fetch loop has one attempt more.
fetch_max_retries_mut == 3 + 1
fetch_max_retries == 3
fetch_base_timeout == 30
fallback_timeout == 60
grok_max_retries == 2
grok_timeout_search == 180
grok_timeout_plain == 120
httpx_default_timeout == 5

\* 2 ** n
RECURSIVE Pow2(_)
Pow2(n) == IF n = 0 THEN 1 ELSE 2 * Pow2(n - 1)

\* ------------------------------------------------------------ the inputs
Entries == {"process_file", "process_link"}
\* str(user.id) of the requesting user
Requester == "user-1"
NoRecord == "absent"
\* Who owns the row with the requested id: the requester, another user, or
\* nobody (there is no such row).
Owners == {Requester, "user-2", NoRecord}
\* file_type / link_type of a stored record: the content types the code
\* names, the same in another letter case, a type it does not name, and a
\* null column (Python None).
DefinedKinds ==
    {"pdf", "word", "document", "youtube", "video", "twitter", "x", "x_post", "reddit", "blog"}
NoneKind == "None"
Kinds == DefinedKinds \cup {"Twitter", "REDDIT", "podcast", NoneKind}
DocUrl == "https://files.example/report.pdf"
VideoUrl == "https://youtu.be/abc123"
\* a URL of the video host that names no video
ChannelUrl == "https://www.youtube.com/channel/xyz"
SocialUrl == "https://x.com/user/status/1"
PlainName == "notes.txt"
Locators == {DocUrl, VideoUrl, ChannelUrl, SocialUrl, PlainName}

\* item.startswith('http://') or item.startswith('https://')
IsHttpUrl(l) == l \in {DocUrl, VideoUrl, ChannelUrl, SocialUrl}
\* Mutant: no URL is taken for a video.
IsYoutubeUrl_mut(l) == FALSE

\* "youtube.com" in item or "youtu.be" in item
IsYoutubeUrl(l) == l \in {VideoUrl, ChannelUrl}
\* "twitter.com" in url or "x.com" in url
IsXUrl(l) == l \in {SocialUrl}

\* ------------------------------------------------------------- messages
\* An error message is the f-string that builds it plus the free text
\* interpolated into it.
Msg(t, d) == [text |-> t, detail |-> d]

\* The string of a message: the f-string with its free text filled in.
Str(m) == m.text \o m.detail

\* The keywords (of the lowered message) that the code searches for.
WordsOf(s) ==
    CASE s = "Gemini API timeout after {max_retries} attempts. The request is taking too long to process."
           -> {"timeout", "api"}
      [] s = "YouTube video processing timed out after {max_retries} attempts. The video may be too long or the request is taking too long to process."
           -> {}
      [] s = "Failed to fetch URL {url} after {max_retries} attempts due to timeout."
           -> {"timeout", "fetch", "url"}
      [] s = "Failed to fetch URL {url}: {response.status_code}"
           -> {"fetch", "url"}
      [] s = "Gemini API error: {response.status_code} - {response.text}"
           -> {"api"}
      [] s = "Grok API timeout: The request took too long to complete. Please try again with a simpler prompt or try later when the service is less busy."
           -> {"timeout", "api"}
      [] s = "Grok API request error: {str(e)}"
           -> {"api"}
      [] s = "Grok API error: {response.status_code} - {error_text}"
           -> {"api"}
      [] s = "Perplexity API error: {response.status_code} - {response.text}"
           -> {"api"}
      [] s = "upstream timeout"
           -> {"timeout"}
      [] s = "Invalid API key"
           -> {"api", "key"}
      [] s = "could not fetch url of storage"
           -> {"fetch", "url"}
      [] s = "relation not found"
           -> {"not found"}
      [] s = "File not found"
           -> {"not found"}
      [] s = "Link not found"
           -> {"not found"}
      [] s = "File not found in the database."
           -> {"not found"}
      [] s = "Invalid YouTube URL provided"
           -> {"url"}
      [] s = "No response generated from Grok API"
           -> {"api"}
      [] s = "No response generated from Perplexity API"
           -> {"api"}
      [] s = "No valid response generated from Gemini API for YouTube video"
           -> {"api"}
      [] OTHER -> {}

\* "<word>" in str(e).lower()
HasWord(m, w) == w \in (WordsOf(m.text) \cup WordsOf(m.detail))


\* ---------------------------------------------------- AIHelperService
\* Mutant: the web-content branch is missing.
get_llm_service_mut(content_type) ==
    IF content_type \in {"twitter", "x", "x_post"} THEN "grok" ELSE "gemini"

\* _get_llm_service: the provider service for a content type.
get_llm_service(content_type) ==
    IF content_type \in {"pdf", "word", "document"} THEN "gemini"
    ELSE IF content_type \in {"youtube", "video"} THEN "gemini"
    ELSE IF content_type \in {"twitter", "x", "x_post"} THEN "grok"
    ELSE IF content_type \in {"reddit", "blog"} THEN "perplexity"
    ELSE "gemini"

\* content_type.lower() on the content types of the model
Lower(content_type) ==
    CASE content_type = "Twitter" -> "twitter"
      [] content_type = "REDDIT" -> "reddit"
      [] OTHER -> content_type

DefaultContext ==
    "You are analyzing content. Provide clear, concise insights based on the provided information."

\* _enhance_prompt_with_context: the key of the row of context_map whose
\* text is put before the prompt, DefaultContext when there is none.
enhance_prompt_with_context(content_type) ==
    IF Lower(content_type) \in DefinedKinds THEN Lower(content_type) ELSE DefaultContext

ModelOf(service) ==
    CASE service = "gemini" -> "gemini-2.5-flash"
      [] service = "grok" -> "grok-4"
      [] service = "perplexity" -> "llama-3.1-sonar-small-128k-online"

\* self.base_url of a service
BaseUrl(service) ==
    CASE service = "gemini" -> "https://generativelanguage.googleapis.com/v1beta/models"
      [] service = "grok" -> "https://api.x.ai/v1"
      [] service = "perplexity" -> "https://api.perplexity.ai"

\* ------------------------------------------------------- construction
Services == {"gemini", "grok", "perplexity"}
NoKey == "None"

\* os.getenv("<SERVICE>_API_KEY") in an environment that sets the keys of
\* the services in env
Getenv(env, service) == IF service \in env THEN "key of " \o service ELSE NoKey

\* Mutant: the constructor accepts a missing key.
KeyMissing_mut(key) == FALSE

\* if not self.api_key: raise ValueError(...)
KeyMissing(key) == key \in {NoKey, ""}

\* The attributes a service's __init__ sets.
ServiceConfig(env, service) ==
    [api_key |-> Getenv(env, service), base_url |-> BaseUrl(service), model |-> ModelOf(service)]

NoConfig == [status |-> "not constructed"]
Fatal == [status |-> "ValueError"]

\* AIHelperService(): the three services are constructed in turn and the
\* first ValueError is re-raised, so there is no helper and no service
\* unless all three keys are set.
NewAIHelperService(env) ==
    IF \E service \in Services : KeyMissing(Getenv(env, service))
    THEN Fatal
    ELSE [service \in Services |-> ServiceConfig(env, service)]

\* file_id for process_file, link_id for process_link
IdKeyOf(e) == IF e = "process_file" THEN "file_id" ELSE "link_id"

\* The lines after `await llm_service.process_content(...)`: entry point e
\* adds its context, with the type k of the stored record, to the dict the
\* service returned and returns it.
StampContext(e, k, res) ==
    [f \in {IdKeyOf(e), "user_id", "content_type", "original_prompt"} |->
        CASE f = "user_id" -> Requester
          [] f = "content_type" -> k
          [] f = "original_prompt" -> "prompt"
          [] OTHER -> "id-1"] @@ res

IdKey == IdKeyOf(entry)

\* The same for the request of the sequential specification.
AddContext(res) == StampContext(entry, kind, res)

\* The except branch of process_file: a user-facing message chosen by
\* substring matching on the description of the caught error.
process_file_error(m) ==
    IF HasWord(m, "timeout")
    THEN [success |-> FALSE, error |-> Msg("The AI service is taking too long to process your file. Please try again with a smaller file or try later.", "")]
    ELSE IF HasWord(m, "api") /\ HasWord(m, "key")
    THEN [success |-> FALSE, error |-> Msg("AI service configuration error. Please contact support.", "")]
    ELSE IF HasWord(m, "fetch") /\ HasWord(m, "url")
    THEN [success |-> FALSE, error |-> Msg("Unable to access the file. Please check if the file is still available.", "")]
    ELSE IF HasWord(m, "not found")
    THEN [success |-> FALSE, error |-> Msg("File not found in the database.", "")]
    ELSE [success |-> FALSE, error |-> [prefix |-> "File processing failed: ", text |-> m.text, detail |-> m.detail]]

\* The except branch of process_link.
process_link_error(m) ==
    [success |-> FALSE, error |-> [prefix |-> "Link processing failed: ", text |-> m.text, detail |-> m.detail]]

\* ------------------------------------------------------- service results
\* Mutant: the result carries the prompt in place of the response.
DocumentsSuccess_mut(response) ==
    [success |-> TRUE, prompt |-> "enhanced prompt", processing_results |-> "enhanced prompt",
     model |-> "gemini-2.5-flash", service |-> "gemini", content_type |-> "pdf"]

\* GeminiService.process_documents
DocumentsSuccess(response) ==
    [success |-> TRUE, prompt |-> "enhanced prompt", processing_results |-> response,
     model |-> ModelOf("gemini"), service |-> "gemini", content_type |-> "pdf"]
DocumentsFailure(m) ==
    [success |-> FALSE, error |-> m, prompt |-> "enhanced prompt",
     service |-> "gemini", content_type |-> "pdf"]

\* GeminiService.process_youtube_video
YoutubeSuccess(response) ==
    [success |-> TRUE, prompt |-> "enhanced prompt", youtube_url |-> locator,
     video_id |-> "abc123", processing_results |-> response,
     model |-> ModelOf("gemini"), service |-> "gemini", content_type |-> "youtube"]
YoutubeFailure(m) ==
    [success |-> FALSE,
     error |-> (IF Str(m) = ""
                THEN Msg("Unknown error occurred during YouTube video processing", "")
                ELSE m),
     prompt |-> "enhanced prompt",
     youtube_url |-> locator, service |-> "gemini", content_type |-> "youtube"]

\* GrokService.process_content
GrokSuccess(response) ==
    [success |-> TRUE, prompt |-> "enhanced prompt", processing_results |-> response,
     model |-> ModelOf("grok"), service |-> "grok"]
GrokFailure(m) ==
    [success |-> FALSE, error |-> m, prompt |-> "enhanced prompt", service |-> "grok"]

\* PerplexityService.process_content
PerplexitySuccess(response) ==
    [success |-> TRUE, prompt |-> "enhanced prompt", processing_results |-> response,
     model |-> ModelOf("perplexity"), service |-> "perplexity"]
PerplexityFailure(m) ==
    [success |-> FALSE, error |-> m, prompt |-> "enhanced prompt", service |-> "perplexity"]

\* ------------------------------------------------------------- plumbing
Call(op, n, timeout) == [ev |-> "call", op |-> op, attempt |-> n, secs |-> timeout]
Sleep(op, n, secs) == [ev |-> "sleep", op |-> op, attempt |-> n, secs |-> secs]

\* How the body of a generation call of kind op carries the content at
\* locator l: a video by reference to its URI, a fetched document as
\* base64 bytes inline, anything else as text only.
Payload(op, l) ==
    CASE op = "youtube" -> "fileData"
      [] op = "pdf" -> (IF IsHttpUrl(l) THEN "inlineData" ELSE "text")
      [] OTHER -> "text"

\* Mutant: the fallback call goes to another provider.
Endpoint_mut(op) ==
    IF op = "fallback" THEN BaseUrl("perplexity") ELSE BaseUrl("gemini")

\* The URL a network call of kind op is sent to, up to the path below the
\* base URL of its service; a fetch goes to the locator of the content.
Endpoint(op) ==
    CASE op \in {"pdf", "fallback", "youtube"} -> BaseUrl("gemini")
      [] op = "grok" -> BaseUrl("grok")
      [] op = "perplexity" -> BaseUrl("perplexity")
      [] op = "fetch" -> locator

\* process_documents / process_youtube_video returned res to the loop of
\* process_content, called with a list: results.append(result).
AppendResult(m, res) ==
    /\ pc' = "batch"
    /\ raised' = m
    /\ results' = Append(results, res)
    /\ UNCHANGED <<result, content, environ, config, tasks>>

\* The service returns res and the entry point returns it with its context.
Return(res) ==
    IF entry = "process_content" THEN AppendResult(raised, res)
    ELSE /\ pc' = "done"
         /\ raised' = raised
         /\ result' = AddContext(res)
         /\ UNCHANGED <<content, results, environ, config, tasks>>

\* Mutant: the service lets the exception through to the entry point.
Raise_mut(m, res) ==
    /\ pc' = "done"
    /\ raised' = m
    /\ result' = (IF entry = "process_file" THEN process_file_error(m) ELSE process_link_error(m))
    /\ UNCHANGED <<content, results, environ, config, tasks>>

\* Exception m leaves the retry loop; the service turns it into res.
Raise(m, res) ==
    IF entry = "process_content" THEN AppendResult(m, res)
    ELSE /\ pc' = "done"
         /\ raised' = m
         /\ result' = AddContext(res)
         /\ UNCHANGED <<content, results, environ, config, tasks>>

\* The running retry loop goes on: next await is `where`.
Goto(where) ==
    /\ pc' = where
    /\ raised' = raised
    /\ result' = result
    /\ UNCHANGED <<content, results, environ, config, tasks>>

Init ==
    /\ pc = "start"
    /\ entry \in Entries
    /\ owner \in Owners
    /\ kind \in Kinds
    /\ locator \in Locators
    /\ ctx = "primary"
    /\ attempt = 0
    /\ outcomes = <<>>
    /\ events = <<>>
    /\ lastText = NoText
    /\ raised = NoError
    /\ result = NoResult
    /\ content = <<>>
    /\ results = <<>>
    /\ environ = Services
    /\ config = NewAIHelperService(environ)
    /\ tasks = <<>>


\* ----------------------------------------------------- network outcomes
\* What one HTTP exchange with the Gemini API can come back with.
GeminiOutcomes ==
    {"ReadTimeout",      \* httpx.ReadTimeout
     "RequestError",     \* any other httpx exception
     "Non200",           \* response.status_code != 200
     "BadJSON",          \* response.json() raises
     "NoCandidates",     \* no "candidates" key or an empty list
     "NoContentParts",   \* candidate without "content" / "parts"
     "NoTextPart",       \* empty parts or no "text" in parts[0]
     "BlankText",        \* text with text.strip() == ""
     "Text"}             \* non-blank text
Textless == {"NoCandidates", "NoContentParts", "NoTextPart", "BlankText"}
FetchOutcomes == {"ReadTimeout", "RequestError", "Non200", "OK"}
ChatOutcomes ==
    {"Timeout",          \* httpx.TimeoutException
     "RequestError",     \* any other httpx.RequestError
     "Non200", "BadJSON",
     "NoChoices",        \* no "choices" key or an empty list
     "Choices"}          \* choices[0].message.content present

JsonError == Msg("Expecting value: line 1 column 1 (char 0)", "")
\* str(e) of an httpx exception is its own message
HttpxError(d) == Msg("", d)

\* Mutant: a linear backoff, 2 * attempt.
Backoff_mut(n) == 2 * n

\* 2 ** attempt: the backoff sleep of the retry loops
Backoff(n) == Pow2(n)

\* --------------------------------------------- GeminiService, documents
FetchTimeoutError ==
    Msg("Failed to fetch URL {url} after {max_retries} attempts due to timeout.", "")

\* The exceptions that leave _fetch_url_content when its last attempt ends
\* with outcome o.
FetchErrors(o) ==
    CASE o = "ReadTimeout" -> {FetchTimeoutError}
      [] o = "Non200" -> {Msg("Failed to fetch URL {url}: {response.status_code}", "")}
      [] o = "RequestError" -> {HttpxError(d) : d \in ExcDetails}

\* timeout = base_timeout * (2 ** attempt) in _fetch_url_content
FetchTimeout(n) == fetch_base_timeout * Pow2(n)

\* The except branches of _fetch_url_content: a failed attempt is followed
\* by a sleep and another attempt unless it was the last one.
FetchRetries(o, n) == ~(n = fetch_max_retries - 1)

FallbackPlaceholder ==
    "Unable to process the document. The file may be corrupted or in an unsupported format."

\* Mutant: no handler around the fetch of the fallback.
RaiseFromFetch_mut(m) == Raise(m, DocumentsFailure(m))

\* An exception leaves _fetch_url_content.  Raised before the primary loop it
\* reaches the except branch of process_documents; raised inside
\* _fallback_text_processing it is caught there.
RaiseFromFetch(m) ==
    IF ctx = "primary"
    THEN Raise(m, DocumentsFailure(m))
    ELSE Raise(m, DocumentsSuccess(FallbackPlaceholder))

\* One iteration of the retry loop of _fetch_url_content.
FetchUrlContent ==
    /\ pc = "fetch"
    /\ events' = Append(events, Call("fetch", attempt, FetchTimeout(attempt)))
    /\ UNCHANGED <<entry, owner, kind, locator, ctx, lastText>>
    /\ \E o \in FetchOutcomes :
        IF o = "OK"
        THEN /\ attempt' = 0
             /\ outcomes' = <<>>
             /\ Goto(IF ctx = "primary" THEN "pdf" ELSE "fallback")
        ELSE /\ attempt' = attempt
             /\ outcomes' = Append(outcomes, o)
             /\ IF FetchRetries(o, attempt)
                THEN Goto("fetch_sleep")
                ELSE \E m \in FetchErrors(o) : RaiseFromFetch(m)

\* await asyncio.sleep(2 ** attempt) in _fetch_url_content
FetchBackoff ==
    /\ pc = "fetch_sleep"
    /\ events' = Append(events, Sleep("fetch", attempt, Backoff(attempt)))
    /\ attempt' = attempt + 1
    /\ Goto("fetch")
    /\ UNCHANGED <<entry, owner, kind, locator, ctx, outcomes, lastText>>

PdfTimeoutError ==
    Msg("Gemini API timeout after {max_retries} attempts. The request is taking too long to process.", "")

\* The exceptions that leave _call_gemini_api_with_pdf when its last attempt
\* ends with outcome o.
PdfErrors(o) ==
    CASE o = "ReadTimeout" -> {PdfTimeoutError}
      [] o = "Non200" -> {Msg("Gemini API error: {response.status_code} - {response.text}", d) : d \in Details}
      [] o = "BadJSON" -> {JsonError}
      [] o = "RequestError" -> {HttpxError(d) : d \in ExcDetails}

\* Mutant: the timeout grows linearly with the attempt.
PdfTimeout_mut(n) == pdf_base_timeout * (n + 1)

\* timeout = base_timeout * (2 ** attempt) in _call_gemini_api_with_pdf
PdfTimeout(n) == pdf_base_timeout * Pow2(n)

\* Mutant: only a read timeout is retried.
PdfRetries_mut(o, n) == o = "ReadTimeout" /\ ~(n = pdf_max_retries - 1)

\* The except branches of _call_gemini_api_with_pdf.
PdfRetries(o, n) == ~(n = pdf_max_retries - 1)

\* Mutant: the fallback goes to its generation call without a fetch.
StartFallback_mut ==
    /\ ctx' = "fallback"
    /\ attempt' = 0
    /\ outcomes' = <<>>
    /\ Goto("fallback")

\* The call of _fallback_text_processing from the primary loop, up to its
\* first await: a URL is fetched again, anything else goes to the call.
StartFallback ==
    /\ ctx' = "fallback"
    /\ attempt' = 0
    /\ outcomes' = <<>>
    /\ Goto(IF IsHttpUrl(locator) THEN "fetch" ELSE "fallback")

\* One iteration of the retry loop of _call_gemini_api_with_pdf.
CallGeminiApiWithPdf ==
    /\ pc = "pdf"
    /\ events' = Append(events, Call("pdf", attempt, PdfTimeout(attempt)))
    /\ UNCHANGED <<entry, owner, kind, locator>>
    /\ \E o \in GeminiOutcomes :
        CASE o = "Text" ->
                \E t \in Texts :
                    /\ lastText' = t
                    /\ outcomes' = Append(outcomes, o)
                    /\ Return(DocumentsSuccess(t))
                    /\ UNCHANGED <<ctx, attempt>>
          [] o \in Textless ->
                /\ StartFallback
                /\ UNCHANGED lastText
          [] OTHER ->
                /\ outcomes' = Append(outcomes, o)
                /\ UNCHANGED <<ctx, attempt, lastText>>
                /\ IF PdfRetries(o, attempt)
                   THEN Goto("pdf_sleep")
                   ELSE \E m \in PdfErrors(o) : Raise(m, DocumentsFailure(m))

\* Mutant: the URL is fetched again before every retry.
PdfBackoff_mut ==
    /\ pc = "pdf_sleep"
    /\ events' = Append(events, Sleep("pdf", attempt, Backoff(attempt)))
    /\ attempt' = attempt + 1
    /\ Goto(IF IsHttpUrl(locator) THEN "fetch" ELSE "pdf")
    /\ UNCHANGED <<entry, owner, kind, locator, ctx, outcomes, lastText>>

\* await asyncio.sleep(2 ** attempt) in _call_gemini_api_with_pdf
PdfBackoff ==
    /\ pc = "pdf_sleep"
    /\ events' = Append(events, Sleep("pdf", attempt, Backoff(attempt)))
    /\ attempt' = attempt + 1
    /\ Goto("pdf")
    /\ UNCHANGED <<entry, owner, kind, locator, ctx, outcomes, lastText>>

\* Mutant: the fallback ignores the text of its response.
FallbackText_mut(o, t) == FallbackPlaceholder

\* What _fallback_text_processing returns when its generation call comes
\* back with outcome o carrying text t.
FallbackText(o, t) ==
    IF o \in {"Text", "BlankText"} THEN t ELSE FallbackPlaceholder

\* The generation call of _fallback_text_processing and what follows it.
FallbackTextProcessing ==
    /\ pc = "fallback"
    /\ events' = Append(events, Call("fallback", 0, fallback_timeout))
    /\ UNCHANGED <<entry, owner, kind, locator, ctx, attempt>>
    /\ \E o \in GeminiOutcomes :
        /\ outcomes' = Append(outcomes, o)
        /\ \E t \in (IF o = "Text" THEN Texts ELSE IF o = "BlankText" THEN BlankTexts ELSE {NoText}) :
            /\ lastText' = (IF t = NoText THEN lastText ELSE t)
            /\ Return(DocumentsSuccess(FallbackText(o, t)))

\* ------------------------------------------------ GeminiService, videos
\* _extract_youtube_video_id
extract_youtube_video_id(url) == IF url = VideoUrl THEN "abc123" ELSE "None"

YoutubeTimeoutError ==
    Msg("YouTube video processing timed out after {max_retries} attempts. The video may be too long or the request is taking too long to process.", "")

\* The exceptions that leave _call_gemini_api_with_youtube when its last
\* attempt ends with outcome o.
YoutubeErrors(o) ==
    CASE o = "ReadTimeout" -> {YoutubeTimeoutError}
      [] o = "Non200" -> {Msg("Gemini API error: {response.status_code} - {response.text}", d) : d \in Details}
      [] o = "BadJSON" -> {JsonError}
      [] o = "RequestError" -> {HttpxError(d) : d \in ExcDetails}
      [] OTHER -> {Msg("No valid response generated from Gemini API for YouTube video", "")}

\* timeout = base_timeout * (2 ** attempt) in _call_gemini_api_with_youtube
YoutubeTimeout(n) == youtube_base_timeout * Pow2(n)

\* The except branches of _call_gemini_api_with_youtube.
YoutubeRetries(o, n) == ~(n = youtube_max_retries - 1)

\* One iteration of the retry loop of _call_gemini_api_with_youtube.
CallGeminiApiWithYoutube ==
    /\ pc = "youtube"
    /\ events' = Append(events, Call("youtube", attempt, YoutubeTimeout(attempt)))
    /\ UNCHANGED <<entry, owner, kind, locator, ctx, attempt>>
    /\ \E o \in GeminiOutcomes :
        /\ outcomes' = Append(outcomes, o)
        /\ IF o \in {"Text", "BlankText"}
           THEN \E t \in (IF o = "Text" THEN Texts ELSE BlankTexts) :
                    /\ lastText' = t
                    /\ Return(YoutubeSuccess(t))
           ELSE /\ UNCHANGED lastText
                /\ IF YoutubeRetries(o, attempt)
                   THEN Goto("youtube_sleep")
                   ELSE \E m \in YoutubeErrors(o) : Raise(m, YoutubeFailure(m))

\* await asyncio.sleep(2 ** attempt) in _call_gemini_api_with_youtube
YoutubeBackoff ==
    /\ pc = "youtube_sleep"
    /\ events' = Append(events, Sleep("youtube", attempt, Backoff(attempt)))
    /\ attempt' = attempt + 1
    /\ Goto("youtube")
    /\ UNCHANGED <<entry, owner, kind, locator, ctx, outcomes, lastText>>

\* ---------------------------------------------------------- GrokService
\* Mutant: the module imports asyncio.
AsyncioImported_mut == TRUE

\* grok_service.py imports httpx, json, base64, typing, BaseLLMService and
\* os: the name asyncio is not bound in the module.
AsyncioImported == FALSE

NameError == Msg("name 'asyncio' is not defined", "")

\* Mutant: live search is attached for every URL.
LiveSearch_mut(url) == IsHttpUrl(url)

\* url and ("twitter.com" in url or "x.com" in url): live search attached
LiveSearch(url) == IsXUrl(url)

NoSearch == [mode |-> "none"]

\* data["search_parameters"] of a call of kind op for the content at url.
\* PerplexityService calls its API with search=False and the Gemini calls
\* have no such field.
SearchParameters(op, url) ==
    IF op = "grok" /\ LiveSearch(url)
    THEN [mode |-> "auto", sources |-> <<"x">>, return_citations |-> TRUE, max_search_results |-> 3]
    ELSE NoSearch

\* Mutant: one timeout for every call.
GrokTimeout_mut(url) == grok_timeout_plain

\* timeout_duration = 180.0 if "search_parameters" in data else 120.0
GrokTimeout(url) == IF LiveSearch(url) THEN grok_timeout_search ELSE grok_timeout_plain

GrokTimeoutError ==
    Msg("Grok API timeout: The request took too long to complete. Please try again with a simpler prompt or try later when the service is less busy.", "")

\* The exceptions _make_api_call can raise for an outcome.
GrokErrors(o) ==
    CASE o = "Timeout" -> {GrokTimeoutError}
      [] o = "RequestError" -> {Msg("Grok API request error: {str(e)}", d) : d \in ExcDetails}
      [] o = "Non200" -> {Msg("Grok API error: {response.status_code} - {error_text}", d) : d \in Details}
      [] o = "BadJSON" -> {JsonError}
      [] o = "NoChoices" -> {Msg("No response generated from Grok API", "")}

\* "timeout" in str(e).lower() and attempt < max_retries
GrokRetries(m, n) == HasWord(m, "timeout") /\ n < grok_max_retries

UsageSuffix == "\n\n[Analysis used {num_sources_used} data sources]"

\* One iteration of the loop of _call_simple_api: _make_api_call and the
\* except branch.  The backoff sleep is part of the iteration: evaluating
\* asyncio.sleep raises NameError unless the module binds asyncio.
CallSimpleApi ==
    /\ pc = "grok"
    /\ UNCHANGED <<entry, owner, kind, locator, ctx>>
    /\ LET called == Append(events, Call("grok", attempt, GrokTimeout(locator)))
       IN \E o \in ChatOutcomes :
            /\ outcomes' = Append(outcomes, o)
            /\ IF o = "Choices"
               THEN \E t \in Texts, usage \in BOOLEAN :
                       /\ lastText' = (IF usage THEN t \o UsageSuffix ELSE t)
                       /\ events' = called
                       /\ attempt' = attempt
                       /\ Return(GrokSuccess(lastText'))
               ELSE \E m \in GrokErrors(o) :
                       /\ UNCHANGED lastText
                       /\ IF GrokRetries(m, attempt)
                          THEN IF AsyncioImported
                               THEN /\ events' = Append(called, Sleep("grok", attempt, Backoff(attempt)))
                                    /\ attempt' = attempt + 1
                                    /\ Goto("grok")
                               ELSE /\ events' = called
                                    /\ attempt' = attempt
                                    /\ Raise(NameError, GrokFailure(NameError))
                          ELSE /\ events' = called
                               /\ attempt' = attempt
                               /\ Raise(m, GrokFailure(m))

\* ---------------------------------------------------- PerplexityService
\* The exceptions _call_perplexity_api can raise for an outcome.
PerplexityErrors(o) ==
    CASE o \in {"Timeout", "RequestError"} -> {HttpxError(d) : d \in ExcDetails}
      [] o = "Non200" -> {Msg("Perplexity API error: {response.status_code} - {response.text}", d) : d \in Details}
      [] o = "BadJSON" -> {JsonError}
      [] o = "NoChoices" -> {Msg("No response generated from Perplexity API", "")}

\* Mutant: a timed-out call is made again, twice at most.
CallPerplexityApi_mut ==
    /\ pc = "perplexity"
    /\ UNCHANGED <<entry, owner, kind, locator, ctx>>
    /\ events' = Append(events, Call("perplexity", attempt, httpx_default_timeout))
    /\ \E o \in ChatOutcomes :
        /\ outcomes' = Append(outcomes, o)
        /\ IF o = "Choices"
           THEN \E t \in Texts : lastText' = t /\ attempt' = attempt /\ Return(PerplexitySuccess(t))
           ELSE /\ UNCHANGED lastText
                /\ IF o = "Timeout" /\ attempt < 2
                   THEN attempt' = attempt + 1 /\ Goto("perplexity")
                   ELSE /\ attempt' = attempt
                        /\ \E m \in PerplexityErrors(o) : Raise(m, PerplexityFailure(m))

\* _call_perplexity_api and the except branch of process_content.
CallPerplexityApi ==
    /\ pc = "perplexity"
    /\ UNCHANGED <<entry, owner, kind, locator, ctx, attempt>>
    /\ events' = Append(events, Call("perplexity", 0, httpx_default_timeout))
    /\ \E o \in ChatOutcomes :
        /\ outcomes' = Append(outcomes, o)
        /\ IF o = "Choices"
           THEN \E t \in Texts : lastText' = t /\ Return(PerplexitySuccess(t))
           ELSE /\ UNCHANGED lastText
                /\ \E m \in PerplexityErrors(o) : Raise(m, PerplexityFailure(m))

\* ------------------------------------------------------ the entry points
\* execute() raises: the database cannot be reached or rejects the query
DbDetails ==
    Details \cup {"Invalid API key", "could not fetch url of storage", "relation not found"}
DbErrors == {Msg("", d) : d \in DbDetails}

\* The entry point returns res without calling a service.
EarlyReturn(m, res) ==
    /\ pc' = "done"
    /\ raised' = m
    /\ result' = res
    /\ UNCHANGED <<entry, owner, kind, locator, ctx, attempt, outcomes, events, lastText>>
    /\ UNCHANGED <<content, results, environ, config, tasks>>

\* Mutant: no handler around the body of the entry point.
EntryExcept_mut(m) == EarlyReturn(m, NoResult)

\* `except Exception as e` of the entry point: the exception becomes a
\* returned dict.
EntryExcept(m) ==
    EarlyReturn(m, IF entry = "process_file" THEN process_file_error(m)
                   ELSE process_link_error(m))

\* content_type.lower() in _enhance_prompt_with_context on a null type
AttributeError == Msg("'NoneType' object has no attribute 'lower'", "")

\* Mutant: GeminiService takes the content kind, not the URL, for a video.
Dispatch_mut ==
    LET service == get_llm_service(kind) IN
    IF kind = NoneKind THEN EntryExcept(AttributeError) ELSE
    /\ UNCHANGED <<entry, owner, kind, locator, ctx, attempt, outcomes, events, lastText>>
    /\ CASE service = "gemini" ->
               IF kind \in {"youtube", "video"}
               THEN IF extract_youtube_video_id(locator) = "None"
                    THEN LET m == Msg("Invalid YouTube URL provided", "")
                         IN Raise(m, YoutubeFailure(m))
                    ELSE Goto("youtube")
               ELSE IF IsHttpUrl(locator) THEN Goto("fetch") ELSE Goto("pdf")
         [] service = "grok" -> Goto("grok")
         [] service = "perplexity" -> Goto("perplexity")

\* _get_llm_service, _enhance_prompt_with_context and
\* llm_service.process_content(url, enhanced_prompt) up to its first await.
Dispatch ==
    LET service == get_llm_service(kind) IN
    IF kind = NoneKind THEN EntryExcept(AttributeError) ELSE
    /\ UNCHANGED <<entry, owner, kind, locator, ctx, attempt, outcomes, events, lastText>>
    /\ CASE service = "gemini" ->
               IF IsYoutubeUrl(locator)
               THEN IF extract_youtube_video_id(locator) = "None"
                    THEN LET m == Msg("Invalid YouTube URL provided", "")
                         IN Raise(m, YoutubeFailure(m))
                    ELSE Goto("youtube")
               ELSE IF IsHttpUrl(locator) THEN Goto("fetch") ELSE Goto("pdf")
         [] service = "grok" -> Goto("grok")
         [] service = "perplexity" -> Goto("perplexity")

\* Mutant: the query filters on the id only.
Select_mut(o) == IF o # NoRecord THEN "row" ELSE "empty"

\* table(...).select("*").eq("id", id).eq("user_id", str(user.id)): the data
\* of the result, the row if it belongs to the requester.
Select(o) == IF o = Requester THEN "row" ELSE "empty"

\* Mutant: the result of the query is used unchecked.
NotFound_mut(data) == FALSE

\* if not result.data
NotFound(data) == data = "empty"

\* file_data["file_url"] on data that is None
TypeError == Msg("'NoneType' object is not subscriptable", "")

NotFoundError == Msg(IF entry = "process_file" THEN "File not found" ELSE "Link not found", "")

\* The body of an entry point from the query to the first await of the
\* service.
Resolve ==
    \/ \E m \in DbErrors : EntryExcept(m)
    \/ LET data == Select(owner) IN
         IF NotFound(data)
         THEN EarlyReturn(raised, [success |-> FALSE, error |-> NotFoundError])
         ELSE IF data = "empty" THEN EntryExcept(TypeError) ELSE Dispatch

\* AIHelperService.process_file, up to the first await of the service.
ProcessFile ==
    /\ pc = "start"
    /\ entry = "process_file"
    /\ Resolve

\* AIHelperService.process_link, up to the first await of the service.
ProcessLink ==
    /\ pc = "start"
    /\ entry = "process_link"
    /\ Resolve

Next ==
    \/ ProcessFile
    \/ ProcessLink
    \/ FetchUrlContent
    \/ FetchBackoff
    \/ CallGeminiApiWithPdf
    \/ PdfBackoff
    \/ FallbackTextProcessing
    \/ CallGeminiApiWithYoutube
    \/ YoutubeBackoff
    \/ CallSimpleApi
    \/ CallPerplexityApi

Spec == Init /\ [][Next]_vars

\* The request under an event loop that resumes it: every awaited network
\* call returns or fails and every sleep ends, so the step that follows
\* the await is taken.
FairSpec == Spec /\ WF_vars(Next)

\* --------------------------------- GeminiService.process_content, batch
\* A list of items handed to GeminiService.process_content directly.  Each
\* item is processed by one await of process_youtube_video or
\* process_documents, which runs through the fetches, generation calls and
\* sleeps of the item as the single-item request above does.
BatchItems == {DocUrl, VideoUrl, ChannelUrl, PlainName}
RECURSIVE SeqsUpTo(_, _)
SeqsUpTo(S, n) ==
    IF n = 0 THEN {<<>>}
    ELSE LET shorter == SeqsUpTo(S, n - 1)
         IN shorter \cup {Append(q, x) : q \in {t \in shorter : Len(t) = n - 1}, x \in S}

\* The method process_content awaits for an item.
ItemMethod(item) ==
    IF IsYoutubeUrl(item) THEN "process_youtube_video" ELSE "process_documents"

\* The composite result of a batch.
Mixed(rs) ==
    [success |-> TRUE, prompt |-> "enhanced prompt", processing_results |-> rs,
     model |-> ModelOf("gemini"), service |-> "gemini", content_type |-> "mixed"]

\* Mutant: the results are wrapped whatever their number.
Unwrap_mut(rs) == Mixed(rs)

\* if len(results) == 1: return results[0], else the composite
Unwrap(rs) == IF Len(rs) = 1 THEN rs[1] ELSE Mixed(rs)

BatchInit ==
    /\ pc = "batch"
    /\ entry = "process_content"
    /\ owner = Requester
    /\ kind = "document"
    /\ locator = PlainName
    /\ ctx = "primary"
    /\ attempt = 0
    /\ outcomes = <<>>
    /\ events = <<>>
    /\ lastText = NoText
    /\ raised = NoError
    /\ result = NoResult
    /\ content \in SeqsUpTo(BatchItems, MaxBatch)
    /\ results = <<>>
    /\ environ = Services
    /\ config = NewAIHelperService(environ)
    /\ tasks = <<>>

\* The record of the iteration for item number index.
ItemStart(item, index) ==
    [ev |-> "item", op |-> ItemMethod(item), item |-> item, index |-> index,
     attempt |-> 0, secs |-> 0]

\* One iteration of `for item in content` up to its first await: the
\* method of the item is called and runs to its first network call, or, for
\* a video URL without a video id, returns its failure at once.
ProcessContentItem ==
    /\ pc = "batch"
    /\ Len(results) < Len(content)
    /\ LET index == Len(results) + 1
           item == content[index]
           m == Msg("Invalid YouTube URL provided", "")
       IN /\ locator' = item
          /\ ctx' = "primary"
          /\ attempt' = 0
          /\ outcomes' = <<>>
          /\ lastText' = NoText
          /\ events' = <<ItemStart(item, index)>>
          /\ IF ItemMethod(item) = "process_youtube_video"
             THEN IF extract_youtube_video_id(item) = "None"
                  THEN AppendResult(m, [YoutubeFailure(m) EXCEPT !.youtube_url = item])
                  ELSE /\ pc' = "youtube"
                       /\ raised' = NoError
                       /\ UNCHANGED <<result, content, results, environ, config, tasks>>
             ELSE /\ pc' = (IF IsHttpUrl(item) THEN "fetch" ELSE "pdf")
                  /\ raised' = NoError
                  /\ UNCHANGED <<result, content, results, environ, config, tasks>>
    /\ UNCHANGED <<entry, owner, kind>>

\* The return of process_content after the loop.
ProcessContentReturn ==
    /\ pc = "batch"
    /\ Len(results) = Len(content)
    /\ pc' = "done"
    /\ result' = Unwrap(results)
    /\ UNCHANGED <<entry, owner, kind, locator, ctx, attempt, outcomes, events, lastText,
                   raised, content, results, environ, config, tasks>>

BatchNext ==
    \/ ProcessContentItem
    \/ ProcessContentReturn
    \/ FetchUrlContent
    \/ FetchBackoff
    \/ CallGeminiApiWithPdf
    \/ PdfBackoff
    \/ FallbackTextProcessing
    \/ CallGeminiApiWithYoutube
    \/ YoutubeBackoff

BatchSpec == BatchInit /\ [][BatchNext]_vars

\* ------------------------------------------ the server and its requests
\* The process from the import of ai_router (which constructs the one
\* AIHelperService) on, serving requests concurrently on one event loop.
\* A request is a coroutine: it runs until an await, where the awaited
\* operation (a network call, the closing of the HTTP client the call was
\* made with, a backoff sleep) is in flight, and goes on when that
\* operation ends.  A request is for a file that is a document whose
\* locator is no URL (GeminiService), for a link of a social platform
\* without a URL of X (GrokService) or for a web link (PerplexityService).
MaxRequests == 2
\* Task.cancel() calls of the caller on one request.
MaxCancels == 1
Requests == 1..MaxRequests

\* The entry point and the type of the stored record of a request.
AsyncKinds == {<<"process_file", "pdf">>, <<"process_link", "twitter">>, <<"process_link", "blog">>}

\* The outcomes of a network call of kind op.
AsyncOutcomes(op) ==
    IF op \in {"pdf", "fallback"} THEN GeminiOutcomes ELSE ChatOutcomes

\* The texts a call of kind op with outcome oc hands back.
AsyncTexts(op, oc) ==
    CASE oc = "BlankText" -> BlankTexts
      [] oc = "Text" -> Texts
      [] oc = "Choices" /\ op = "grok" -> Texts \cup {t \o UsageSuffix : t \in Texts}
      [] oc = "Choices" /\ op # "grok" -> Texts
      [] OTHER -> {NoText}

\* The exceptions a call of kind op raises for outcome oc; the fallback
\* catches whatever its call raises.
AsyncErrors(op, oc) ==
    CASE op = "pdf" /\ oc \in {"ReadTimeout", "RequestError", "Non200", "BadJSON"} -> PdfErrors(oc)
      [] op = "grok" /\ oc # "Choices" -> GrokErrors(oc)
      [] op = "perplexity" /\ oc # "Choices" -> PerplexityErrors(oc)
      [] OTHER -> {NoError}

\* What a call came back with, kept by the coroutine while the client the
\* call was made with is closed.
NoPending == [oc |-> "none", txt |-> NoText, m |-> NoError]

\* url and model are the locals of _call_gemini_api_with_pdf that are
\* bound before its loop; attempt is the loop variable.
IdleTask ==
    [service |-> "none", entry |-> "none", kind |-> "none", pc |-> "idle",
     url |-> "none", model |-> "none", attempt |-> 0, pending |-> NoPending,
     inflight |-> {}, log |-> <<>>, result |-> NoResult]

\* The request a call sends: where to, for which model, with which key.
Sent(op, n, timeout, base_url, model, key) ==
    [ev |-> "call", op |-> op, attempt |-> n, secs |-> timeout,
     url |-> base_url, model |-> model, key |-> key]

\* Leaving `async with httpx.AsyncClient(...)`: the client of the call of
\* kind op is closed.
Close(op, n) == [ev |-> "close", op |-> op, attempt |-> n, secs |-> 0]

\* Operation o of task t starts / ends.
StartOp(t, o) ==
    [t EXCEPT !.inflight = @ \cup {o}, !.log = Append(@, [what |-> "start", op |-> o])]
EndOp(t, o) ==
    [t EXCEPT !.inflight = @ \ {o}, !.log = Append(@, [what |-> "end", op |-> o])]

\* The service returns res, a result with "model" carrying self.model, and
\* the entry point returns it with its context.
Finish(t, res, cfg) ==
    [t EXCEPT !.pc = "done",
              !.result = StampContext(t.entry, t.kind,
                            IF "model" \in DOMAIN res
                            THEN [res EXCEPT !.model = cfg[t.service].model]
                            ELSE res)]

\* Mutant: the backoff sleep is started but not awaited.
Awaits_mut(o) == o.ev # "sleep"

\* Every network call and every sleep of the services is awaited.
Awaits(o) == TRUE

\* Mutant: the fallback switches the model of the service.
ConfigAfter_mut(op, cfg) ==
    IF op = "fallback" THEN [cfg EXCEPT !["gemini"].model = "gemini-text"] ELSE cfg

\* No method of a service or of the helper assigns to self after __init__.
ConfigAfter(op, cfg) == cfg

\* `except Exception` catches the subclasses of Exception;
\* asyncio.CancelledError derives from BaseException.
ExceptCatches(exc) == exc # "CancelledError"

\* The service method of task t starts: _call_gemini_api_with_pdf builds
\* its url from self.base_url and self.model before its loop.
Enter(t, cfg) ==
    IF t.service = "gemini"
    THEN [t EXCEPT !.url = cfg["gemini"].base_url, !.model = cfg["gemini"].model]
    ELSE t

\* Attempt n of the loop of the service of task t starts.  The loop of
\* GeminiService posts to the url built before it, with self.api_key read
\* at the attempt; _make_api_call of GrokService and _call_perplexity_api
\* read url, model and key of self when they build the request.
StartAttempt(t, n, cfg) ==
    CASE t.service = "gemini" ->
            StartOp([t EXCEPT !.pc = "pdf", !.attempt = n, !.pending = NoPending],
                    Sent("pdf", n, PdfTimeout(n), t.url, t.model, cfg["gemini"].api_key))
      [] t.service = "grok" ->
            StartOp([t EXCEPT !.pc = "grok", !.attempt = n, !.pending = NoPending],
                    Sent("grok", n, grok_timeout_plain,
                         cfg["grok"].base_url, cfg["grok"].model, cfg["grok"].api_key))
      [] t.service = "perplexity" ->
            StartOp([t EXCEPT !.pc = "perplexity", !.attempt = n, !.pending = NoPending],
                    Sent("perplexity", n, httpx_default_timeout,
                         cfg["perplexity"].base_url, cfg["perplexity"].model,
                         cfg["perplexity"].api_key))

\* The backoff sleep after attempt n of task t starts; the coroutine goes
\* on to the next attempt at once unless it awaits the sleep.
StartSleep(t, op, n, cfg) ==
    LET sl == Sleep(op, n, Backoff(n))
        u == [t EXCEPT !.pending = NoPending]
    IN IF Awaits(sl) THEN StartOp(u, sl) ELSE StartAttempt(StartOp(u, sl), n + 1, cfg)

\* The coroutine of task t goes on after its call o ended with outcome oc,
\* carrying text txt or raising m, up to its next await.  A primary call
\* of GeminiService that is answered without text is followed at once,
\* still inside its `async with`, by _fallback_text_processing, which
\* builds its own url and makes its call; every other answer is kept
\* while the client of the call is closed.
Received(t, o, oc, txt, m, cfg) ==
    LET u == EndOp(t, o) IN
    IF o.op = "pdf" /\ oc \in Textless
    THEN StartOp([u EXCEPT !.pc = "fallback"],
                 Sent("fallback", 0, fallback_timeout,
                      cfg["gemini"].base_url, cfg["gemini"].model, cfg["gemini"].api_key))
    ELSE StartOp([u EXCEPT !.pending = [oc |-> oc, txt |-> txt, m |-> m]],
                 Close(o.op, o.attempt))

\* The coroutine of task t goes on after the client of its call was
\* closed (operation o), up to its next await or its return.
Resume(t, o, cfg) ==
    LET u == EndOp(t, o)
        p == t.pending
    IN
    CASE o.op = "pdf" ->
            IF t.pc = "fallback"
            THEN Finish(u, DocumentsSuccess(FallbackText(p.oc, p.txt)), cfg)
            ELSE IF p.oc = "Text" THEN Finish(u, DocumentsSuccess(p.txt), cfg)
            ELSE IF PdfRetries(p.oc, o.attempt) THEN StartSleep(u, "pdf", o.attempt, cfg)
            ELSE Finish(u, DocumentsFailure(p.m), cfg)
      [] o.op = "fallback" -> StartOp(u, Close("pdf", t.attempt))
      [] o.op = "grok" ->
            IF p.oc = "Choices" THEN Finish(u, GrokSuccess(p.txt), cfg)
            ELSE IF GrokRetries(p.m, o.attempt)
            THEN IF AsyncioImported THEN StartSleep(u, "grok", o.attempt, cfg)
                 ELSE Finish(u, GrokFailure(NameError), cfg)
            ELSE Finish(u, GrokFailure(p.m), cfg)
      [] o.op = "perplexity" ->
            IF p.oc = "Choices" THEN Finish(u, PerplexitySuccess(p.txt), cfg)
            ELSE Finish(u, PerplexityFailure(p.m), cfg)

AsyncInit ==
    /\ pc = "server"
    /\ entry = "process_file"
    /\ owner = Requester
    /\ kind = "document"
    /\ locator = PlainName
    /\ ctx = "primary"
    /\ attempt = 0
    /\ outcomes = <<>>
    /\ events = <<>>
    /\ lastText = NoText
    /\ raised = NoError
    /\ result = NoResult
    /\ content = <<>>
    /\ results = <<>>
    /\ environ \in SUBSET Services
    /\ config = NoConfig
    /\ tasks = [r \in Requests |-> IdleTask]

ServerUnchanged ==
    UNCHANGED <<pc, entry, owner, kind, locator, ctx, attempt, outcomes, events, lastText,
                raised, result, content, results>>

\* load_dotenv() at the import of llm_service: the variables of the .env
\* file that the environment does not have are added to it.
load_dotenv(env, dotenv) == env \cup dotenv

\* The import of ai_router: the import of the service modules runs
\* load_dotenv(), then ai_helper = AIHelperService() constructs the
\* services from the environment.
Construct ==
    /\ config = NoConfig
    /\ \E dotenv \in SUBSET Services :
          /\ environ' = load_dotenv(environ, dotenv)
          /\ config' = NewAIHelperService(environ')
    /\ UNCHANGED tasks
    /\ ServerUnchanged

\* The endpoints exist once the module is imported: a request arrives and
\* runs up to its first network call.
Begin(r) ==
    /\ config \notin {NoConfig, Fatal}
    /\ tasks[r].pc = "idle"
    /\ \E k \in AsyncKinds :
          tasks' = [tasks EXCEPT ![r] =
                       StartAttempt(Enter([tasks[r] EXCEPT !.service = get_llm_service(k[2]),
                                                           !.entry = k[1],
                                                           !.kind = k[2]], config),
                                    0, config)]
    /\ UNCHANGED <<environ, config>>
    /\ ServerUnchanged

\* A network call of request r ends and the request goes on.
Complete(r) ==
    /\ tasks[r].pc \notin {"idle", "done", "cancelled"}
    /\ \E o \in tasks[r].inflight :
          /\ o.ev = "call"
          /\ \E oc \in AsyncOutcomes(o.op) :
                \E txt \in AsyncTexts(o.op, oc), m \in AsyncErrors(o.op, oc) :
                    /\ tasks' = [tasks EXCEPT ![r] = Received(tasks[r], o, oc, txt, m, config)]
                    /\ config' = ConfigAfter(o.op, config)
    /\ UNCHANGED environ
    /\ ServerUnchanged

\* The Task.cancel() calls in the history of task t.
Cancels(t) == {i \in 1..Len(t.log) : t.log[i].what = "cancel"}
Cancelled(t) == Cancels(t) # {}

\* Whether a Task.cancel() that arrives while operation o is in flight can
\* be lost.  While client.post sets up its connection the cancellation is
\* swallowed by the transport and the call goes on; once the request is
\* sent, and in a closing or a sleep, CancelledError is raised in the
\* coroutine.
CancelLost(o) == IF o.ev = "call" THEN {TRUE, FALSE} ELSE {FALSE}

\* CancelledError leaves the frames of task t, raised at operation o.
\* Raised at a call, the connection of the call is closed on the way out of
\* client.post, and the request is suspended in that closing.  Raised
\* inside _fallback_text_processing (at the closing of its client, or
\* after the closing of the connection of its cancelled call) it then
\* passes the `async with` of the primary call, inside which the fallback
\* is awaited: the client of the answered primary call is closed, and the
\* request is suspended in that closing too.  Raised at the closing of any
\* other client or at a sleep, nothing open is left and the task ends at
\* once.
Unwind(t, o) ==
    LET u == [t EXCEPT !.inflight = {}, !.pending = NoPending] IN
    IF o.ev = "call"
    THEN StartOp([u EXCEPT !.pc = "cancelling"], Close(o.op, o.attempt))
    ELSE IF o.op = "fallback"
    THEN StartOp([u EXCEPT !.pc = "cancelling"], Close("pdf", t.attempt))
    ELSE [u EXCEPT !.pc = "cancelled"]

\* The closing o ends while CancelledError leaves the frames of task t.
Unwound(t, o) ==
    IF o.op = "fallback"
    THEN StartOp(EndOp(t, o), Close("pdf", t.attempt))
    ELSE [EndOp(t, o) EXCEPT !.pc = "cancelled"]

\* The client of a call of request r is closed and the request goes on; a
\* request that is being cancelled goes on leaving its frames.
Closed(r) ==
    /\ tasks[r].pc \notin {"idle", "done", "cancelled"}
    /\ \E o \in tasks[r].inflight :
          /\ o.ev = "close"
          /\ tasks' = [tasks EXCEPT ![r] =
                          IF tasks[r].pc = "cancelling"
                          THEN Unwound(tasks[r], o)
                          ELSE Resume(tasks[r], o, config)]
    /\ UNCHANGED <<environ, config>>
    /\ ServerUnchanged

\* A backoff sleep of request r ends; the coroutine that awaits it starts
\* the next attempt.
Wake(r) ==
    /\ tasks[r].pc \notin {"idle", "done", "cancelled"}
    /\ \E o \in tasks[r].inflight :
          /\ o.ev = "sleep"
          /\ tasks' = [tasks EXCEPT ![r] =
                          IF Awaits(o) THEN StartAttempt(EndOp(tasks[r], o), o.attempt + 1, config)
                          ELSE EndOp(tasks[r], o)]
    /\ UNCHANGED <<environ, config>>
    /\ ServerUnchanged

\* The caller cancels request r, which is suspended at an await.  The
\* cancellation is lost in the set-up of a connection, or CancelledError is
\* raised at the await: a handler that catches it treats it like any other
\* exception of the awaited operation; otherwise it leaves every frame of
\* the request.
Cancel(r) ==
    /\ tasks[r].pc \notin {"idle", "done", "cancelling", "cancelled"}
    /\ Cardinality(Cancels(tasks[r])) < MaxCancels
    /\ \E o \in tasks[r].inflight : \E lost \in CancelLost(o) :
          LET t == [tasks[r] EXCEPT !.log = Append(@, [what |-> "cancel", op |-> o])] IN
          tasks' = [tasks EXCEPT ![r] =
                       IF lost THEN t
                       ELSE IF ExceptCatches("CancelledError")
                       THEN IF o.ev = "call"
                            THEN Received(t, o, "RequestError", NoText, HttpxError(""), config)
                            ELSE Finish(EndOp(t, o), DocumentsFailure(HttpxError("")), config)
                       ELSE Unwind(t, o)]
    /\ UNCHANGED <<environ, config>>
    /\ ServerUnchanged

AsyncNext ==
    \/ Construct
    \/ \E r \in Requests : Begin(r)
    \/ \E r \in Requests : Complete(r)
    \/ \E r \in Requests : Closed(r)
    \/ \E r \in Requests : Wake(r)
    \/ \E r \in Requests : Cancel(r)

AsyncSpec == AsyncInit /\ [][AsyncNext]_vars

\* C27: a missing credential is detected at construction and is fatal: no
\* service exists without its credential, and since the helper constructs
\* all three services, one missing credential leaves no helper, so no
\* request of any kind is served and no call is ever sent without a key.
C27_MissingCredentialIsFatal ==
    /\ (config = NoConfig \/ environ # Services) => \A r \in Requests : tasks[r] = IdleTask
    /\ (config # NoConfig /\ environ # Services) => config = Fatal
    /\ (config \notin {NoConfig, Fatal}) =>
          \A service \in Services : config[service].api_key # NoKey
    /\ \A r \in Requests : \A i \in 1..Len(tasks[r].log) :
          tasks[r].log[i].op.ev = "call" => tasks[r].log[i].op.key # NoKey

\* Construction has run in an environment where exactly one key is missing.
C27_Witness ==
    /\ config = Fatal
    /\ Cardinality(environ) = Cardinality(Services) - 1

\* Construction has succeeded and a request has sent a call with its key.
C27_WitnessServing ==
    /\ config \notin {NoConfig, Fatal}
    /\ \E r \in Requests : \E o \in tasks[r].inflight : o.ev = "call" /\ o.key = Getenv(environ, tasks[r].service)

Last(seq) == seq[Len(seq)]

IsStart(e, ev) == e.what = "start" /\ e.op.ev = ev

\* C25: within one request at most one network operation, closing of a
\* client or sleep is in progress at a time: every operation that started
\* is ended (or cancelled) before the next one starts, and attempt i+1 of a
\* retry loop starts only after attempt i has ended, its client has been
\* closed and the backoff sleep after it has started and ended.
C25_OneOperationAtATime ==
    \A r \in Requests :
        LET log == tasks[r].log IN
        /\ Cardinality(tasks[r].inflight) <= 1
        /\ \A i \in 1..Len(log) :
              /\ (log[i].what = "start" /\ i < Len(log)) =>
                    log[i + 1].what \in {"end", "cancel"} /\ log[i + 1].op = log[i].op
              /\ (IsStart(log[i], "call") /\ log[i].op.attempt > 0) =>
                    LET n == log[i].op.attempt - 1
                        sl == Sleep(log[i].op.op, n, Backoff(n))
                        cl == Close(log[i].op.op, n)
                    IN /\ i > 6
                       /\ log[i - 1] = [what |-> "end", op |-> sl]
                       /\ log[i - 2] = [what |-> "start", op |-> sl]
                       /\ log[i - 3] = [what |-> "end", op |-> cl]
                       /\ log[i - 4] = [what |-> "start", op |-> cl]
                       /\ log[i - 5].what = "end"
                       /\ log[i - 5].op.ev = "call"
                       /\ log[i - 5].op.op = log[i].op.op
                       /\ log[i - 5].op.attempt = n

\* A request is in its third attempt, after two backoff sleeps.
C25_Witness ==
    \E r \in Requests : \E o \in tasks[r].inflight :
        o.ev = "call" /\ o.op = "pdf" /\ o.attempt = 2

\* The first cancellation in the history of task t.
FirstCancel(t) == CHOOSE i \in Cancels(t) : \A j \in Cancels(t) : i <= j

\* C26: when a request is cancelled while a network operation or a sleep is
\* pending, no further attempt, fallback call or sleep is started for it
\* and it emits no result, neither a success nor a failure.
C26_CancellationStopsRequest ==
    \A r \in Requests :
        LET t == tasks[r] IN
        Cancelled(t) =>
            /\ \A i \in (FirstCancel(t) + 1)..Len(t.log) :
                  ~(t.log[i].what = "start" /\ t.log[i].op.ev \in {"call", "sleep"})
            /\ t.result = NoResult

\* Task t has made the generation call of the fallback.
InFallbackCall(t) == \E i \in 1..Len(t.log) : t.log[i].op.ev = "call" /\ t.log[i].op.op = "fallback"

\* What the request of the finished task t returns when it is served alone
\* by a helper with configuration cfg: the coroutine, after the last
\* closing of a client in its history, goes on with the answer it holds.
ServedAlone(t, cfg) ==
    LET o == Last(t.log).op
        before == [t EXCEPT !.pc = IF InFallbackCall(t) THEN "fallback" ELSE o.op,
                            !.inflight = {o},
                            !.log = SubSeq(t.log, 1, Len(t.log) - 1),
                            !.result = NoResult]
    IN Resume(before, o, cfg).result

\* C24: concurrent requests are independent.  The configuration of the
\* services is never modified after construction, every call is sent with
\* the configuration its service was constructed with, and whatever the
\* interleaving with the other requests, a request served to the end
\* returns the result that its own answers give when it is served alone.
C24_ConcurrentRequestsIndependent ==
    /\ config # NoConfig => config = NewAIHelperService(environ)
    /\ \A r \in Requests :
          LET t == tasks[r] IN
          /\ \A i \in 1..Len(t.log) :
                t.log[i].op.ev = "call" =>
                    /\ t.log[i].op.url = ServiceConfig(environ, t.service).base_url
                    /\ t.log[i].op.model = ServiceConfig(environ, t.service).model
                    /\ t.log[i].op.key = ServiceConfig(environ, t.service).api_key
          /\ t.pc = "done" =>
                /\ Last(t.log) = [what |-> "end", op |-> Close(Last(t.log).op.op, t.attempt)]
                /\ t.result = ServedAlone(t, NewAIHelperService(environ))

\* A request has been served to the end through the fallback, after a
\* retry, while another request of the same service is between its
\* attempts.
C24_Witness ==
    \E r, q \in Requests :
        /\ tasks[r].pc = "done" /\ InFallbackCall(tasks[r]) /\ tasks[r].attempt = 1
        /\ tasks[r].pending.oc = "Text"
        /\ tasks[q].service = tasks[r].service
        /\ \E o \in tasks[q].inflight : o.ev = "sleep"


\* ================================================================ claims
AllAre(seq, x) == \A i \in DOMAIN seq : seq[i] = x
LastOp == IF events = <<>> THEN "none" ELSE Last(events).op
CallsOf(op) == {i \in DOMAIN events : events[i].ev = "call" /\ events[i].op = op}
NumCalls(op) == Cardinality(CallsOf(op))
RECURSIVE SleptUpTo(_, _)
SleptUpTo(op, i) ==
    IF i = 0 THEN 0
    ELSE (IF events[i].ev = "sleep" /\ events[i].op = op THEN events[i].secs ELSE 0)
         + SleptUpTo(op, i - 1)
TotalSleep(op) == SleptUpTo(op, Len(events))
Returned == pc = "done"

\* C1: when every network call of a document call, a video call or a URL
\* fetch fails with a read timeout, the loop makes exactly 3 attempts and
\* then fails with its timeout error; no 4th attempt is ever made.
C1_TimeoutsExhaustAfterThreeAttempts ==
    /\ \A i \in DOMAIN events :
          events[i].ev = "call" /\ events[i].op \in {"pdf", "youtube", "fetch"}
              => events[i].attempt < 3
    /\ (outcomes # <<>> /\ AllAre(outcomes, "ReadTimeout") /\ LastOp \in {"pdf", "youtube", "fetch"})
          => /\ Len(outcomes) <= 3
             /\ (Returned <=> Len(outcomes) = 3)
             /\ Returned =>
                   /\ NumCalls(LastOp) >= 3
                   /\ raised = (CASE LastOp = "pdf" -> PdfTimeoutError
                                  [] LastOp = "youtube" -> YoutubeTimeoutError
                                  [] LastOp = "fetch" -> FetchTimeoutError)
                   /\ (LastOp # "fetch" \/ ctx = "primary") =>
                         /\ result.success = FALSE
                         /\ result.error = raised

C1_Witness ==
    /\ Returned
    /\ LastOp = "pdf"
    /\ outcomes = <<"ReadTimeout", "ReadTimeout", "ReadTimeout">>

\* The failures of a provider call that are not timeouts.
NonTimeoutFailures(op) ==
    IF op = "youtube"
    THEN {"Non200", "BadJSON", "NoCandidates", "NoContentParts", "NoTextPart"}
    ELSE {"Non200", "BadJSON"}

\* C2 as stated: on the document and video paths a non-timeout failure of
\* a provider call is raised after exactly one attempt, with no backoff
\* sleep and no second attempt after it.
C2_NonTimeoutFailureRaisedAtOnce ==
    (LastOp \in {"pdf", "youtube"} /\ outcomes # <<>> /\ outcomes[1] \in NonTimeoutFailures(LastOp))
        => /\ Returned
           /\ Len(outcomes) = 1
           /\ TotalSleep(LastOp) = 0

\* C2 amended: on the document and video paths a non-timeout failure of a
\* provider call is retried like a timeout: before the 3rd attempt it is
\* followed by a backoff sleep of 2^attempt seconds and another attempt,
\* and it is raised only when it is the outcome of the 3rd attempt.
C2_NonTimeoutFailureRetried ==
    (LastOp \in {"pdf", "youtube"} /\ outcomes # <<>> /\ Last(outcomes) \in NonTimeoutFailures(LastOp))
        => IF Len(outcomes) < 3
           THEN /\ ~Returned
                /\ \/ pc = LastOp \o "_sleep" /\ attempt = Len(outcomes) - 1
                   \/ /\ pc = LastOp
                      /\ attempt = Len(outcomes)
                      /\ Last(events) = Sleep(LastOp, attempt - 1, Pow2(attempt - 1))
           ELSE /\ Returned
                /\ result.success = FALSE
                /\ result.error = raised
                /\ raised \in (IF LastOp = "pdf" THEN PdfErrors(Last(outcomes))
                               ELSE YoutubeErrors(Last(outcomes)))

C2_Witness ==
    /\ Returned
    /\ LastOp = "pdf"
    /\ outcomes = <<"Non200", "BadJSON", "Non200">>


\* The primary document call came back 200 without usable text, so the
\* request went into _fallback_text_processing.
InFallback == ctx = "fallback"

\* No primary attempt follows an event of the fallback.
NoPrimaryAfterFallback ==
    \A i, j \in DOMAIN events :
        (i < j /\ events[i].op = "pdf" /\ events[j].op \in {"fetch", "fallback"})
            => \A k \in DOMAIN events : k > j => events[k].op # "pdf"

\* C3 as stated: on the document path a 200 response without usable text
\* leads to exactly one fallback generation call (60s, not retried), no
\* further primary attempt, and a successful result carrying the
\* fallback's text.
C3_ExactlyOneFallbackCall ==
    (Returned /\ InFallback)
        => /\ NumCalls("fallback") = 1
           /\ \A i \in CallsOf("fallback") : events[i].secs = 60
           /\ NoPrimaryAfterFallback
           /\ result.success = TRUE
           /\ Last(outcomes) \in {"Text", "BlankText"} => result.processing_results = lastText

\* C3 amended: on the document path a 200 response without usable text
\* leads to at most one fallback generation call (60s, not retried):
\* exactly one unless the locator is a URL and the fallback's re-fetch of it
\* fails, in which case none is made and the placeholder is returned as a
\* success.  No further primary attempt is made, and when the fallback call
\* returns text, that text is returned as a successful result.
C3_AtMostOneFallbackCall ==
    InFallback
        => /\ NumCalls("fallback") <= 1
           /\ \A i \in CallsOf("fallback") : events[i].secs = 60 /\ events[i].attempt = 0
           /\ NoPrimaryAfterFallback
           /\ NumCalls("fallback") = 1 => Returned /\ LastOp = "fallback"
           /\ Returned =>
                 /\ result.success = TRUE
                 /\ "error" \notin DOMAIN result
                 /\ IF NumCalls("fallback") = 1
                    THEN Last(outcomes) \in {"Text", "BlankText"}
                             => result.processing_results = lastText
                    ELSE /\ IsHttpUrl(locator)
                         /\ LastOp = "fetch"
                         /\ Len(outcomes) = 3
                         /\ result.processing_results = FallbackPlaceholder

C3_Witness ==
    /\ Returned
    /\ InFallback
    /\ LastOp = "fallback"
    /\ Last(outcomes) = "Text"
    /\ result.processing_results = lastText
    /\ NumCalls("pdf") = 2

\* The fallback failed: its generation call, or the re-fetch before it.
FallbackFailed ==
    \/ LastOp = "fallback" /\ Last(outcomes) \in {"Non200", "RequestError", "ReadTimeout"}
    \/ LastOp = "fetch"

\* C4: when the primary document call returns a textless 200 response and
\* the fallback then fails (non-200, network error, timeout), the request
\* returns success = true with the non-empty placeholder text, never
\* success = false.
C4_FallbackFailureIsSoftSuccess ==
    (Returned /\ InFallback /\ FallbackFailed)
        => /\ result.success = TRUE
           /\ "error" \notin DOMAIN result
           /\ result.processing_results
                 = "Unable to process the document. The file may be corrupted or in an unsupported format."
           /\ ~IsBlank(result.processing_results)

C4_Witness ==
    /\ Returned
    /\ InFallback
    /\ LastOp = "fallback"
    /\ Last(outcomes) = "Non200"
    /\ result.success = TRUE

\* C5: when the fallback call returns a 200 response whose text is empty
\* or whitespace-only, the result text is the non-empty placeholder, never
\* the blank text.
C5_BlankFallbackTextReplaced ==
    (Returned /\ InFallback /\ LastOp = "fallback" /\ Last(outcomes) = "BlankText")
        => /\ result.processing_results = FallbackPlaceholder
           /\ ~IsBlank(result.processing_results)

\* All attempts of the chosen provider were used up on timeouts.
TimeoutExhausted ==
    /\ Returned
    /\ LastOp \in {"pdf", "youtube"}
    /\ Len(outcomes) = 3
    /\ AllAre(outcomes, "ReadTimeout")

TimeoutGuidance ==
    Msg("The AI service is taking too long to process your file. Please try again with a smaller file or try later.", "")

\* C6: when all attempts of the chosen provider are exhausted on timeouts,
\* the result of process_file / process_link has success = false and
\* carries the user-facing timeout guidance (try again with a smaller input
\* or later), which differs from what a non-timeout failure reports.
C6_TimeoutGuidanceReported ==
    TimeoutExhausted
        => /\ result.success = FALSE
           /\ result.error = TimeoutGuidance

RetryLoops == {"pdf", "youtube", "fetch"}

\* C7: in a retry loop a sleep of 2^attempt seconds (attempt 0-indexed)
\* lies between consecutive attempts, with no sleep before the first
\* attempt and none after the last; on the document path, with timeouts on
\* attempts 1 and 2 and text on attempt 3, the result is a success carrying
\* that text after 3 attempts and 1 + 2 = 3 seconds of backoff.
C7_BackoffBetweenAttempts ==
    /\ \A i \in DOMAIN events :
          (events[i].ev = "sleep" /\ events[i].op \in RetryLoops)
              => /\ i > 1
                 /\ events[i - 1] = Call(events[i].op, events[i].attempt, events[i - 1].secs)
                 /\ events[i].secs = 2 ^ events[i].attempt
                 /\ i < Len(events) =>
                       /\ events[i + 1].ev = "call"
                       /\ events[i + 1].op = events[i].op
                       /\ events[i + 1].attempt = events[i].attempt + 1
    /\ \A i \in DOMAIN events :
          (events[i].ev = "call" /\ events[i].op \in RetryLoops)
              => IF events[i].attempt = 0
                 THEN i = 1 \/ events[i - 1].ev = "call"
                 ELSE events[i - 1] = Sleep(events[i].op, events[i].attempt - 1,
                                            2 ^ (events[i].attempt - 1))
    /\ (Returned /\ events # <<>>) => Last(events).ev = "call"
    /\ (Returned /\ LastOp = "pdf" /\ outcomes = <<"ReadTimeout", "ReadTimeout", "Text">>)
          => /\ result.success = TRUE
             /\ lastText \in Texts
             /\ result.processing_results = lastText
             /\ NumCalls("pdf") = 3
             /\ TotalSleep("pdf") = 3

C7_Witness ==
    /\ Returned
    /\ LastOp = "pdf"
    /\ outcomes = <<"ReadTimeout", "ReadTimeout", "Text">>
    /\ TotalSleep("pdf") = 3

\* C8: the timeout of attempt i (0-indexed) is base * 2^i: 30s, 60s, 120s
\* for document calls, 60s, 120s, 240s for video calls and 30s, 60s, 120s
\* for URL fetches.
C8_TimeoutSchedule ==
    \A i \in DOMAIN events :
        events[i].ev = "call" =>
            /\ events[i].op = "pdf" => events[i].secs = <<30, 60, 120>>[events[i].attempt + 1]
            /\ events[i].op = "youtube" => events[i].secs = <<60, 120, 240>>[events[i].attempt + 1]
            /\ events[i].op = "fetch" => events[i].secs = <<30, 60, 120>>[events[i].attempt + 1]

C8_Witness ==
    /\ \E i \in CallsOf("pdf") : events[i].attempt = 2 /\ events[i].secs = 120
    /\ \E i \in CallsOf("fetch") : events[i].attempt = 2 /\ events[i].secs = 120

C8_WitnessVideo ==
    \E i \in CallsOf("youtube") : events[i].attempt = 2 /\ events[i].secs = 240

\* C9: on the social path a provider that times out on every call is
\* invoked at most 2 times for one request.
C9_GrokAtMostTwoCalls ==
    (LastOp = "grok" /\ AllAre(outcomes, "Timeout")) => NumCalls("grok") <= 2

C9_Witness ==
    /\ Returned
    /\ LastOp = "grok"
    /\ outcomes # <<>>
    /\ AllAre(outcomes, "Timeout")

\* C10: on the social path, when the first attempt times out the invoker
\* sleeps 2^0 seconds and makes a second attempt against the same provider;
\* if that attempt succeeds the result is a success carrying its output.
C10_GrokSecondAttempt ==
    /\ (LastOp = "grok" /\ outcomes = <<"Timeout">>)
          => /\ ~Returned
             /\ pc = "grok"
             /\ attempt = 1
             /\ Last(events) = Sleep("grok", 0, 1)
    /\ (Returned /\ LastOp = "grok" /\ Len(outcomes) = 2 /\ outcomes[1] = "Timeout" /\ outcomes[2] = "Choices")
          => /\ result.success = TRUE
             /\ result.processing_results = lastText

\* C11: on the social path a non-200 provider response is raised after
\* exactly one attempt and is never classified as a retryable timeout,
\* whatever the text of the response body (a body containing the word
\* 'timeout' included): the request fails with the provider's error.
C11_GrokNon200RaisedAtOnce ==
    (LastOp = "grok" /\ outcomes # <<>> /\ outcomes[1] = "Non200")
        => /\ Returned
           /\ NumCalls("grok") = 1
           /\ raised \in GrokErrors("Non200")
           /\ ~GrokRetries(raised, 0)
           /\ result.success = FALSE
           /\ result.error = raised

\* The string under the key "error" of a result.
ErrorText(e) == (IF "prefix" \in DOMAIN e THEN e.prefix ELSE "") \o e.text \o e.detail

\* C12: every result returned by the orchestrator satisfies: success = false
\* implies the output text is absent and a non-empty error is present;
\* success = true implies an output text is present and no error is
\* present, after any sequence of attempt outcomes on any provider path.
C12_ResultShape ==
    Returned =>
        IF result.success
        THEN /\ "processing_results" \in DOMAIN result
             /\ "error" \notin DOMAIN result
        ELSE /\ "processing_results" \notin DOMAIN result
             /\ "error" \in DOMAIN result
             /\ ErrorText(result.error) # ""

\* C13: every result returned by the orchestrator, on success and on every
\* failure path (content not found, provider failure, caught exception),
\* carries the provider identity, the model name, the content kind and the
\* original unmodified user instruction.
C13_ProvenanceStamped ==
    Returned =>
        /\ {"service", "model", "content_type", "original_prompt"} \subseteq DOMAIN result
        /\ result.content_type = kind
        /\ result.original_prompt = "prompt"

\* Something of the request failed for good: the query found no row of
\* the requester, an exception left the body of the entry point, a retry
\* loop or a fetch, or the generation call of the fallback failed or came
\* back without a text.
RequestFailed ==
    \/ owner # Requester
    \/ raised # NoError
    \/ ctx = "fallback" /\ LastOp = "fallback" /\ Last(outcomes) \notin {"Text", "BlankText"}

\* C14 as stated: process_file and process_link never raise: every failure
\* of content resolution, classification, prompt building, payload building
\* or provider invocation ends in a returned result with success = false.
C14_EveryFailureReturnedAsFailure ==
    Returned =>
        /\ "success" \in DOMAIN result
        /\ RequestFailed =>
              /\ result.success = FALSE
              /\ "error" \in DOMAIN result

\* C14 amended: process_file and process_link never raise, every request
\* ends in a returned result.  A failure of content resolution,
\* classification, prompt building, payload building or provider
\* invocation ends in a result with success = false that carries an error,
\* except a failure inside the fallback of the document path (its re-fetch
\* or its generation call), which ends in a result with success = true
\* carrying the placeholder text.
C14_EntryPointsNeverRaise ==
    Returned =>
        /\ "success" \in DOMAIN result
        /\ RequestFailed =>
              IF ctx = "fallback"
              THEN /\ result.success = TRUE
                   /\ result.processing_results = FallbackPlaceholder
                   /\ "error" \notin DOMAIN result
              ELSE /\ result.success = FALSE
                   /\ "error" \in DOMAIN result

\* No row of the requester: the entry point returned its not-found result.
C14_WitnessNotFound ==
    /\ Returned
    /\ owner = NoRecord
    /\ raised = NoError
    /\ result.success = FALSE

\* The generation call of the fallback failed and the request succeeded.
C14_WitnessFallback ==
    /\ Returned
    /\ ctx = "fallback"
    /\ LastOp = "fallback"
    /\ Last(outcomes) = "Non200"
    /\ result.success = TRUE

C14_Witness ==
    /\ Returned
    /\ entry = "process_link"
    /\ raised = AttributeError
    /\ result.success = FALSE

C14_WitnessProvider ==
    /\ Returned
    /\ entry = "process_file"
    /\ LastOp = "perplexity"
    /\ raised \in PerplexityErrors("Timeout")
    /\ result.success = FALSE

\* The query came back without data: the row is missing or is not the
\* requester's, and the database did not fail.
NoRecordFound == Returned /\ owner # Requester /\ raised \notin DbErrors

\* C15: when content resolution finds no record for (content id, owner),
\* the orchestrator returns success = false with a not-found error, and no
\* provider call, URL fetch, classification or backoff sleep happens.
C15_NotFoundIsTerminal ==
    NoRecordFound =>
        /\ result = [success |-> FALSE, error |-> NotFoundError]
        /\ NotFoundError.text \in {"File not found", "Link not found"}
        /\ events = <<>>
        /\ outcomes = <<>>
        /\ raised = NoError

C15_Witness ==
    /\ Returned
    /\ owner = NoRecord
    /\ entry = "process_file"
    /\ result.error = Msg("File not found", "")
    /\ events = <<>>

\* C16: a provider is invoked only on content whose stored owner equals
\* the requesting user: content that exists but belongs to another user is
\* treated as not found and never reaches any provider.
C16_OnlyOwnContentReachesProvider ==
    /\ (events # <<>> \/ pc \notin {"start", "done"}) => owner = Requester
    /\ (Returned /\ owner \notin {Requester, NoRecord})
          => /\ result.success = FALSE
             /\ "processing_results" \notin DOMAIN result
             /\ raised \notin DbErrors => result.error = NotFoundError

C16_Witness ==
    /\ Returned
    /\ owner = "user-2"
    /\ entry = "process_link"
    /\ result = [success |-> FALSE, error |-> Msg("Link not found", "")]
    /\ events = <<>>

\* The provider each content kind is to be routed to.
ExpectedProvider(k) ==
    CASE k \in {"pdf", "word", "document", "youtube", "video"} -> "gemini"
      [] k \in {"twitter", "x", "x_post"} -> "grok"
      [] k \in {"reddit", "blog"} -> "perplexity"
      [] OTHER -> "gemini"

\* The service whose code the request is running at position p.
RunningService(p) ==
    CASE p = "grok" -> "grok"
      [] p = "perplexity" -> "perplexity"
      [] OTHER -> "gemini"

\* A service was selected for the request and has returned.
ServiceReturned == Returned /\ owner = Requester /\ raised \notin DbErrors /\ kind # NoneKind

\* C17: classification is total and deterministic: every defined content
\* kind (pdf/word/document, youtube/video, twitter/x/x_post, reddit/blog)
\* maps to exactly one provider, any unrecognized string maps to the
\* document/video provider, and it never fails: the service that runs a
\* request and stamps its result is the one the table gives for its kind.
C17_ClassificationTable ==
    /\ pc \notin {"start", "done"} => RunningService(pc) = ExpectedProvider(kind)
    /\ ServiceReturned =>
          /\ "service" \in DOMAIN result
          /\ result.service = ExpectedProvider(kind)
          /\ result.service \in {"gemini", "grok", "perplexity"}

C17_Witness ==
    /\ ServiceReturned
    /\ kind = "podcast"
    /\ result.service = "gemini"

C17_WitnessDefined ==
    /\ ServiceReturned
    /\ kind = "blog"
    /\ result.service = "perplexity"

\* content_type.lower() on the kinds of the model
LowerCase(k) ==
    CASE k = "Twitter" -> "twitter"
      [] k = "REDDIT" -> "reddit"
      [] OTHER -> k

\* C18: the provider mapping is case-insensitive on the content kind: a
\* kind that differs from a defined kind only in letter case ('Twitter',
\* 'REDDIT') selects the same provider as the lower-case kind.
C18_CaseInsensitiveMapping ==
    ServiceReturned => result.service = ExpectedProvider(LowerCase(kind))

\* The network calls that generate output: all but the URL fetches.
GenerationCalls == {i \in DOMAIN events : events[i].ev = "call" /\ events[i].op # "fetch"}

\* C19: once a provider is chosen for a request, every network call that
\* generates output for it (each retry attempt and the fallback call)
\* targets that same provider; no attempt goes to another provider.
C19_CallsStayWithChosenProvider ==
    /\ \A i \in GenerationCalls : Endpoint(events[i].op) = BaseUrl(get_llm_service(kind))
    /\ \A i, j \in GenerationCalls : Endpoint(events[i].op) = Endpoint(events[j].op)
    /\ (ServiceReturned /\ GenerationCalls # {})
          => \A i \in GenerationCalls : Endpoint(events[i].op) = BaseUrl(result.service)

C19_Witness ==
    /\ Returned
    /\ InFallback
    /\ NumCalls("pdf") = 3
    /\ NumCalls("fallback") = 1
    /\ result.service = "gemini"

\* The first attempt of the document call came back with non-blank text.
FirstAttemptText == Returned /\ LastOp = "pdf" /\ outcomes = <<"Text">>

\* C20: on the document path, when the first attempt returns a response
\* whose first candidate's first part has non-blank text T, the request
\* ends after exactly one provider generation call with success = true,
\* output text exactly T and provider identity gemini.
C20_FirstAttemptTextReturned ==
    FirstAttemptText =>
        /\ Cardinality(GenerationCalls) = 1
        /\ NumCalls("pdf") = 1
        /\ TotalSleep("pdf") = 0
        /\ result.success = TRUE
        /\ lastText \in Texts
        /\ result.processing_results = lastText
        /\ result.service = "gemini"
        /\ "error" \notin DOMAIN result

C20_Witness ==
    /\ FirstAttemptText
    /\ kind = "document"
    /\ locator = DocUrl
    /\ result.processing_results = "Summary A"
    /\ result.service = "gemini"

\* C21: for content kind 'video' with a remote URL that matches the
\* video-host pattern, the payload references the video by URI and no byte
\* fetch of the URL ever occurs during the request, retries included.
C21_VideoByReferenceNoFetch ==
    (kind \in {"video", "youtube"} /\ locator \in {VideoUrl, ChannelUrl})
        => /\ pc \notin {"fetch", "fetch_sleep", "pdf", "pdf_sleep", "fallback"}
           /\ \A i \in DOMAIN events :
                 /\ events[i].op = "youtube"
                 /\ events[i].ev = "call" => Payload(events[i].op, locator) = "fileData"

C21_Witness ==
    /\ kind = "video"
    /\ locator = VideoUrl
    /\ NumCalls("youtube") = 3
    /\ NumCalls("fetch") = 0
    /\ Returned

\* The locator is a URL of the social platform.
SocialPlatformUrl(l) == l = "https://x.com/user/status/1"

\* C22: a live-search directive (bounded to 3 sources, citations requested)
\* is attached to a request if and only if the request is served by the
\* social provider and its locator is a URL matching the social-platform
\* domain pattern; the web-text provider never attaches one, even for the
\* same URL.
C22_LiveSearchOnlyForSocialUrls ==
    \A i \in GenerationCalls :
        LET sp == SearchParameters(events[i].op, locator) IN
        /\ sp # NoSearch <=> (get_llm_service(kind) = "grok" /\ SocialPlatformUrl(locator))
        /\ sp # NoSearch =>
              /\ sp.max_search_results = 3
              /\ sp.return_citations = TRUE
              /\ events[i].secs = 180
        /\ events[i].op = "perplexity" => sp = NoSearch
        /\ (events[i].op = "grok" /\ sp = NoSearch) => events[i].secs = 120

C22_Witness ==
    /\ Returned
    /\ kind = "x_post"
    /\ locator = SocialUrl
    /\ NumCalls("grok") = 1
    /\ SearchParameters("grok", locator).max_search_results = 3

C22_WitnessWebText ==
    /\ Returned
    /\ kind = "reddit"
    /\ locator = SocialUrl
    /\ NumCalls("perplexity") = 1
    /\ SearchParameters("perplexity", locator) = NoSearch

\* C28: on the video path a 200 response with no usable text (no
\* candidates, missing content / parts, no text part, or blank text) is
\* neither returned as a success nor retried as if it were a timeout: it
\* ends the request with a failure after that attempt.
C28_VideoTextlessNotSuccessNotRetried ==
    (LastOp = "youtube" /\ outcomes # <<>> /\ Last(outcomes) \in Textless)
        => /\ Returned
           /\ result.success = FALSE
           /\ \A i \in 1..(Len(outcomes) - 1) : outcomes[i] \notin Textless

\* The result reports content that could not be reached.
UnreachableReported ==
    /\ result.success = FALSE
    /\ \/ result.error = Msg("Unable to access the file. Please check if the file is still available.", "")
       \/ HasWord(result.error, "fetch") /\ HasWord(result.error, "url")

\* The fetch of the document's locator failed for good, not by a timeout.
FetchFailedNoTimeout ==
    Returned /\ LastOp = "fetch" /\ Last(outcomes) \in {"Non200", "RequestError"}

\* C29: when the remote locator of a document cannot be fetched because of
\* a non-timeout HTTP or network failure, the orchestrator's result has
\* success = false with the unreachable-content outcome, and no provider
\* generation call is made for that request.
C29_UnreachableContentReported ==
    FetchFailedNoTimeout =>
        /\ UnreachableReported
        /\ GenerationCalls = {}

\* The taxonomy kind a result's error stands for.
KindOf(e) ==
    CASE e.text = "The AI service is taking too long to process your file. Please try again with a smaller file or try later."
           -> "Timeout"
      [] e.text = "AI service configuration error. Please contact support." -> "Configuration"
      [] e.text = "Unable to access the file. Please check if the file is still available."
           -> "UnreachableContent"
      [] e.text = "File not found in the database." -> "NotFound"
      [] OTHER -> "Unknown"

\* The kind the fixed precedence gives for a caught error.
KindByPrecedence(m) ==
    IF HasWord(m, "timeout") THEN "Timeout"
    ELSE IF HasWord(m, "api") /\ HasWord(m, "key") THEN "Configuration"
    ELSE IF HasWord(m, "fetch") /\ HasWord(m, "url") THEN "UnreachableContent"
    ELSE IF HasWord(m, "not found") THEN "NotFound"
    ELSE "Unknown"

\* The except branch of the entry point ran.
CaughtByEntryPoint == Returned /\ raised \in (DbErrors \cup {AttributeError, TypeError})

\* C30: on failure the orchestrator maps the caught error to exactly one
\* taxonomy kind by matching its description in a fixed precedence
\* (timeout, configuration / API key, unreachable content, not found, else
\* unknown), the same on both entry points.
C30_SameErrorMappingOnBothEntries ==
    CaughtByEntryPoint =>
        /\ result.success = FALSE
        /\ KindOf(result.error) = KindByPrecedence(raised)

\* C23: in batch mode on the document / video provider, items are
\* processed one at a time in input order and result i corresponds to item
\* i; with more than one item the results are wrapped in a composite
\* 'mixed' result, with exactly one item the inner result is returned
\* unwrapped.
C23_BatchResultsPositional ==
    /\ Len(results) <= Len(content)
    /\ pc \notin {"batch", "done"} =>
          /\ Len(results) < Len(content)
          /\ locator = content[Len(results) + 1]
          /\ events[1] = ItemStart(locator, Len(results) + 1)
          /\ \A k \in 2..Len(events) :
                events[k].op \in (IF IsYoutubeUrl(locator) THEN {"youtube"}
                                  ELSE {"fetch", "pdf", "fallback"})
    /\ (pc = "batch" /\ results # <<>>) =>
          events[1] = ItemStart(content[Len(results)], Len(results))
    /\ \A i \in DOMAIN results :
          IF IsYoutubeUrl(content[i])
          THEN /\ results[i].content_type = "youtube"
               /\ results[i].youtube_url = content[i]
               /\ extract_youtube_video_id(content[i]) = "None" =>
                     results[i].success = FALSE
          ELSE results[i].content_type = "pdf"
    /\ Returned =>
          /\ Len(results) = Len(content)
          /\ Len(content) > 1 =>
                /\ result.content_type = "mixed"
                /\ result.success = TRUE
                /\ result.processing_results = results
          /\ Len(content) = 1 => result = results[1]

C23_Witness ==
    /\ Returned
    /\ content = <<VideoUrl, PlainName>>
    /\ result.content_type = "mixed"
    /\ result.processing_results[1].content_type = "youtube"
    /\ result.processing_results[2].content_type = "pdf"

C23_WitnessSingle ==
    /\ Returned
    /\ content = <<DocUrl>>
    /\ result = DocumentsSuccess("Summary A")

\* The events of the request before its first primary generation call.
BeforePrimary ==
    {k \in DOMAIN events : \A i \in CallsOf("pdf") : k < i}

\* The fetch calls among the events with index in K.
FetchCallsIn(K) == {k \in K : events[k].ev = "call" /\ events[k].op = "fetch"}

\* C31: on the document path with a remote URL that is no video, the bytes
\* are fetched in one fetch sequence (attempts 0, 1, 2 in turn, at most 3)
\* before the first provider attempt and every attempt sends that payload
\* inline: between two primary attempts there is nothing but the backoff
\* sleep, the URL is not fetched again.  With content that is no URL no
\* fetch occurs at all.
C31_FetchedOnceBeforeAttempts ==
    /\ \A i, j \in CallsOf("pdf") : \A k \in DOMAIN events :
          (i < k /\ k < j) => events[k].op = "pdf"
    /\ (CallsOf("pdf") # {} /\ IsHttpUrl(locator)) =>
          /\ Payload("pdf", locator) = "inlineData"
          /\ FetchCallsIn(BeforePrimary) # {}
          /\ Cardinality(FetchCallsIn(BeforePrimary)) <= 3
          /\ \A k \in BeforePrimary : events[k].op = "fetch"
          /\ \A k \in FetchCallsIn(BeforePrimary) :
                events[k].attempt = Cardinality({h \in FetchCallsIn(BeforePrimary) : h < k})
    /\ ~IsHttpUrl(locator) => CallsOf("fetch") = {}

\* A document URL was fetched at the second try and the provider answered
\* at its third attempt.
C31_Witness ==
    /\ Returned
    /\ locator = DocUrl
    /\ ~InFallback
    /\ NumCalls("fetch") = 2
    /\ NumCalls("pdf") = 3
    /\ result.success = TRUE

\* Content that is no URL was sent to the provider, which answered at its
\* second attempt.
C31_WitnessNoUrl ==
    /\ Returned
    /\ locator = PlainName
    /\ NumCalls("pdf") = 2
    /\ result.success = TRUE

\* C32: on the social provider the timeout of a call does not escalate:
\* every call of a request has a timeout of 180s when the live-search
\* directive is attached and of 120s otherwise, whatever its attempt
\* number.
C32_GrokTimeoutFixed ==
    \A i \in CallsOf("grok") :
        events[i].secs = (IF SearchParameters("grok", locator) # NoSearch THEN 180 ELSE 120)

C32_Witness ==
    /\ Returned
    /\ LastOp = "grok"
    /\ locator = SocialUrl
    /\ \A i \in CallsOf("grok") : events[i].secs = 180

C32_WitnessNoSearch ==
    /\ Returned
    /\ LastOp = "grok"
    /\ locator = DocUrl
    /\ \A i \in CallsOf("grok") : events[i].secs = 120

\* C33: the context put before the prompt belongs to the same row of the
\* mapping as the provider that is selected: a request is never run by one
\* provider with the context of a content kind of another provider.
C33_FramingMatchesProvider ==
    (pc \notin {"start", "done"}) =>
        ExpectedProvider(enhance_prompt_with_context(kind)) = RunningService(pc)

\* A provider service was called and an operation of it failed for good:
\* an exception left a retry loop or a fetch, the video URL was refused, or
\* the call of the fallback failed.
ProviderFailed ==
    /\ Returned
    /\ \/ events # <<>> /\ raised # NoError
       \/ raised = Msg("Invalid YouTube URL provided", "")
       \/ events # <<>> /\ InFallback /\ FallbackFailed

\* The result is the dict of a service: the except branch of the entry
\* point, with its mapping of the error, has not produced it.
FromService ==
    /\ "service" \in DOMAIN result
    /\ result.service = get_llm_service(kind)
    /\ "error" \in DOMAIN result => "prefix" \notin DOMAIN result.error

\* C34 as stated: process_content of a provider service never raises: every
\* failure of its retry loop, fetch or response decoding is returned as a
\* result with success = false, and never reaches the except branch of the
\* entry point.
C34_ProviderFailuresReturnedAsFailure ==
    ProviderFailed => FromService /\ result.success = FALSE

\* C34 amended: process_content of a provider service never raises and no
\* failure of it reaches the except branch of the entry point.  A failure
\* on the primary path is returned as a result with success = false that
\* carries the error; a failure inside the fallback of the document path
\* (its re-fetch or its generation call) is returned as success = true with
\* the placeholder text.
C34_ProviderFailuresReturned ==
    ProviderFailed =>
        /\ FromService
        /\ IF InFallback
           THEN /\ result.success = TRUE
                /\ result.processing_results = FallbackPlaceholder
                /\ "error" \notin DOMAIN result
           ELSE /\ result.success = FALSE
                /\ result.error \in {raised, Msg("Unknown error occurred during YouTube video processing", "")}

\* The social provider failed with a non-200 answer and the entry point
\* returned the service's failure.
C34_Witness ==
    /\ ProviderFailed
    /\ LastOp = "grok"
    /\ Last(outcomes) = "Non200"
    /\ result.success = FALSE
    /\ result.service = "grok"

\* The re-fetch of the fallback failed on its third attempt.
C34_WitnessFallback ==
    /\ ProviderFailed
    /\ InFallback
    /\ LastOp = "fetch"
    /\ raised = FetchTimeoutError
    /\ result.success = TRUE

\* The events of the request from its first primary generation call on.
FromPrimary == DOMAIN events \ BeforePrimary

SleepsIn(K, op) == {k \in K : events[k].ev = "sleep" /\ events[k].op = op}

\* The attempt bounds of the loops of a request.
WithinAttemptBounds ==
    /\ Cardinality(FetchCallsIn(BeforePrimary)) <= 3
    /\ Cardinality(SleepsIn(BeforePrimary, "fetch")) <= 2
    /\ NumCalls("pdf") <= 3
    /\ Cardinality(SleepsIn(DOMAIN events, "pdf")) <= 2
    /\ Cardinality(FetchCallsIn(FromPrimary)) <= 3
    /\ Cardinality(SleepsIn(FromPrimary, "fetch")) <= 2
    /\ NumCalls("fallback") <= 1
    /\ NumCalls("youtube") <= 3
    /\ Cardinality(SleepsIn(DOMAIN events, "youtube")) <= 2
    /\ NumCalls("grok") <= 3
    /\ Cardinality(SleepsIn(DOMAIN events, "grok")) <= 2
    /\ NumCalls("perplexity") <= 1
    /\ \A k \in DOMAIN events : events[k].attempt <= 2

\* C35: every request terminates provided each network call returns or
\* fails.  The document path with a URL locator makes at most 3 fetch
\* attempts, 3 primary generation attempts, 3 fetch attempts of the
\* fallback and 1 generation call of the fallback, with at most 2 backoff
\* sleeps in each retry loop; no loop goes beyond its attempt bound.
C35_RequestTerminatesWithinBounds ==
    /\ []WithinAttemptBounds
    /\ <>Returned

\* A request that used every attempt it has on the document path.
C35_Witness ==
    /\ Returned
    /\ IsHttpUrl(locator)
    /\ Cardinality(FetchCallsIn(BeforePrimary)) = 3
    /\ NumCalls("pdf") = 3
    /\ Cardinality(FetchCallsIn(FromPrimary)) = 3
    /\ NumCalls("fallback") = 1
    /\ Cardinality(SleepsIn(DOMAIN events, "fetch")) = 4
    /\ Cardinality(SleepsIn(DOMAIN events, "pdf")) = 2

\* C36: for a URL locator the fallback first fetches the URL again through
\* the retried fetch (up to 3 attempts, a backoff sleep before each retry)
\* and only then makes its one generation call; when that fetch fails the
\* result is the placeholder text with success = true and the generation
\* call of the fallback is not made.
C36_FallbackRefetchesUrlFirst ==
    (InFallback /\ IsHttpUrl(locator)) =>
        LET refetch == FetchCallsIn(FromPrimary) IN
        /\ Cardinality(refetch) <= 3
        /\ \A k \in refetch :
              /\ events[k].attempt = Cardinality({h \in refetch : h < k})
              /\ events[k].attempt > 0 =>
                    events[k - 1] = Sleep("fetch", events[k].attempt - 1, Backoff(events[k].attempt - 1))
        /\ (pc = "fallback" \/ CallsOf("fallback") # {}) => refetch # {}
        /\ \A i \in CallsOf("fallback") :
              /\ \A k \in refetch : k < i
              /\ (i - 1) \in refetch
        /\ (Returned /\ LastOp = "fetch") =>
              /\ Cardinality(refetch) = 3
              /\ NumCalls("fallback") = 0
              /\ result.success = TRUE
              /\ result.processing_results = FallbackPlaceholder

\* The re-fetch of the fallback failed three times: placeholder, no call.
C36_Witness ==
    /\ Returned
    /\ InFallback
    /\ locator = DocUrl
    /\ LastOp = "fetch"
    /\ NumCalls("fallback") = 0
    /\ result.processing_results = FallbackPlaceholder

\* The re-fetch succeeded at its second attempt and the call was made.
C36_WitnessRefetched ==
    /\ Returned
    /\ InFallback
    /\ locator = DocUrl
    /\ Cardinality(FetchCallsIn(FromPrimary)) = 2
    /\ NumCalls("fallback") = 1
    /\ result.processing_results \in Texts

\* C37: a composite 'mixed' result of a batch has success = true only if
\* every inner result has success = true: a batch in which an item failed
\* and an empty batch are not reported as a success.
C37_MixedSuccessOnlyIfAllSucceeded ==
    (pc = "done" /\ result # NoResult /\ result.content_type = "mixed" /\ result.success = TRUE)
        => /\ result.processing_results # <<>>
           /\ \A i \in DOMAIN result.processing_results :
                 result.processing_results[i].success = TRUE

InvalidVideoUrl == Msg("Invalid YouTube URL provided", "")

\* C38: inside the document/video provider the sub-path is decided by the
\* pattern of the locator alone, not by the content kind: a URL of the
\* video host is handled as a video whatever its kind, any other content is
\* handled as a document (a URL of kind 'video' that is no video URL is
\* fetched and sent inline), and a URL of the video host without a video id
\* fails with success = false without any network call.
C38_SubPathByUrlPattern ==
    (kind # NoneKind /\ get_llm_service(kind) = "gemini") =>
        /\ IsYoutubeUrl(locator) =>
              /\ \A k \in DOMAIN events : events[k].op = "youtube"
              /\ pc \in {"start", "youtube", "youtube_sleep", "done"}
        /\ ~IsYoutubeUrl(locator) =>
              /\ \A k \in DOMAIN events : events[k].op \in {"fetch", "pdf", "fallback"}
              /\ pc \notin {"youtube", "youtube_sleep"}
        /\ (IsHttpUrl(locator) /\ ~IsYoutubeUrl(locator) /\ events # <<>>) =>
              /\ events[1] = Call("fetch", 0, 30)
              /\ Payload("pdf", locator) = "inlineData"
        /\ (IsYoutubeUrl(locator) /\ extract_youtube_video_id(locator) = "None") =>
              /\ events = <<>>
              /\ pc \in {"start", "done"}
              /\ raised = InvalidVideoUrl =>
                    /\ result.success = FALSE
                    /\ result.error = InvalidVideoUrl

\* A video URL stored with a document kind was processed as a video.
C38_Witness ==
    /\ Returned
    /\ kind = "pdf"
    /\ locator = VideoUrl
    /\ LastOp = "youtube"
    /\ result.success = TRUE

\* A document URL stored with kind 'video' was fetched and sent as a
\* document.
C38_WitnessDocument ==
    /\ Returned
    /\ kind = "video"
    /\ locator = DocUrl
    /\ NumCalls("fetch") = 1
    /\ LastOp = "pdf"
    /\ result.success = TRUE

\* A URL of the video host without a video id was refused.
C38_WitnessNoVideoId ==
    /\ Returned
    /\ kind = "video"
    /\ locator = ChannelUrl
    /\ raised = InvalidVideoUrl
    /\ result.success = FALSE

\* C39: the web-text provider makes exactly one provider call for a
\* request: no failure of that call, a timeout included, is followed by a
\* retry, a backoff sleep or a fallback call; the failure is returned.
C39_PerplexityExactlyOneCall ==
    (kind # NoneKind /\ get_llm_service(kind) = "perplexity") =>
        /\ pc \in {"start", "perplexity", "done"}
        /\ Len(events) <= 1
        /\ \A k \in DOMAIN events :
              events[k].ev = "call" /\ events[k].op = "perplexity" /\ events[k].attempt = 0
        /\ (Returned /\ "service" \in DOMAIN result) => Len(events) = 1
        /\ (Returned /\ events # <<>>) =>
              /\ Len(outcomes) = 1
              /\ Last(outcomes) # "Choices" =>
                    /\ result.success = FALSE
                    /\ result.service = "perplexity"
                    /\ raised \in PerplexityErrors(Last(outcomes))

\* The one call timed out and the failure was returned.
C39_Witness ==
    /\ Returned
    /\ LastOp = "perplexity"
    /\ Last(outcomes) = "Timeout"
    /\ Len(events) = 1
    /\ result.success = FALSE

====
